---- MODULE Spec2Model ----
(***************************************************************************)
(* Model of the event store of gpud (pkg/eventstore/database.go): one      *)
(* bucket (table) of event rows kept by the SQL engine, the bucket         *)
(* operations Insert / Find / Get / Latest / Purge, and the                *)
(* Find-before-Insert protocol its callers (component.Check) run on it.    *)
(*                                                                         *)
(* A table is the sequence of its rows in rowid order (a new row gets a    *)
(* rowid above every stored one).  A JSON text is the sequence of its      *)
(* tokens.  A time.Time is [sec, nsec]; the store keeps only Unix seconds. *)
(*                                                                         *)
(* Further: the Store that hands out buckets (Bucket, LoadBucketWithNoPurge,*)
(* newTable, createTable statement by statement under concurrent creators), *)
(* and the life of one handle: its purge goroutine (runPurge), the clock,  *)
(* and Close.  A time.Duration is counted in milliseconds; a name is the   *)
(* sequence of its characters.                                             *)
(***************************************************************************)
EXTENDS Integers, Sequences, FiniteSets, TLC

\* ------------------------------------------------------------------ bounds

\* The bucket holds at most MaxRows rows (Insert is disabled beyond it).
MaxRows == 3

\* ------------------------------------------------------------ Go values

\* A string holding a byte that is not valid UTF-8, and what encoding/json
\* writes for it (the replacement rune U+FFFD).
InvalidUTF8 == "<0xFF>"
ReplacementRune == "<U+FFFD>"

\* A nil map[string]string, and a non-nil one with the entries m.
NilMap == [isNil |-> TRUE, m |-> <<>>]
MapOf(m) == [isNil |-> FALSE, m |-> m]

\* len(m) of a Go map (0 for the nil map).
MapLen(x) == IF x.isNil THEN 0 ELSE Cardinality(DOMAIN x.m)

\* A nil *apiv1.SuggestedActions, and a pointer to a struct value.
NilActions == [isNil |-> TRUE, descriptions |-> <<>>, repair_actions |-> <<>>]
ActionsOf(d, r) == [isNil |-> FALSE, descriptions |-> d, repair_actions |-> r]

\* sql.NullString: a NULL column, and a column holding the text s.
Null(zero) == [Valid |-> FALSE, String |-> zero]
Text(s) == [Valid |-> TRUE, String |-> s]

\* time.Time as seconds and nanoseconds; Unix() drops the nanoseconds.
TimeOf(s, n) == [sec |-> s, nsec |-> n]
Unix(t) == t.sec

\* The zero apiv1.Event (what `var event apiv1.Event` declares).
ZeroEvent ==
    [Time |-> TimeOf(0, 0), Name |-> "", Type |-> "", Message |-> "",
     ExtraInfo |-> NilMap, SuggestedActions |-> NilActions]

\* A nil *apiv1.Event and a pointer to the event e.
NilEvent == [isNil |-> TRUE, ev |-> ZeroEvent]
PtrTo(e) == [isNil |-> FALSE, ev |-> e]

\* A nil apiv1.Events slice and a non-nil one.
NilEvents == [isNil |-> TRUE, items |-> <<>>]
EventsOf(s) == [isNil |-> FALSE, items |-> s]

\* The nil error.
NoError == "nil"

\* ------------------------------------------------------------ encoding/json

\* The keys of the model's maps in the order json.Marshal writes them
\* (sorted).
SortedKeys == <<"a", "c">>

\* json.Marshal coerces every string to valid UTF-8.
ToValidUTF8(s) == IF s = InvalidUTF8 THEN ReplacementRune ELSE s

\* A string with a character json.Marshal escapes (& becomes \u0026), and
\* the JSON text of it; a string of non-ASCII runes, which is written as is.
SpecialChars == "!@#$%^&*()"
SpecialCharsJSON == "!@#$%^\\u0026*()"
Unicode == "<U+4F60><U+597D>"

\* The JSON string json.Marshal writes for s, and the string json.Unmarshal
\* reads from the JSON string tok.
Quote(s) == IF s = SpecialChars THEN SpecialCharsJSON ELSE ToValidUTF8(s)
Unquote(tok) == IF tok = SpecialCharsJSON THEN SpecialChars ELSE tok

RECURSIVE MarshalMembers(_, _, _)
MarshalMembers(m, i, first) ==
    IF i > Len(SortedKeys) THEN <<>>
    ELSE IF SortedKeys[i] \in DOMAIN m
         THEN (IF first THEN <<>> ELSE <<",">>)
              \o <<Quote(SortedKeys[i]), ":", Quote(m[SortedKeys[i]])>>
              \o MarshalMembers(m, i + 1, FALSE)
         ELSE MarshalMembers(m, i + 1, first)

\* json.Marshal(ev.DeprecatedExtraInfo) of a non-nil map: {"k":"v",...}.
MarshalExtraInfo(x) == <<"{">> \o MarshalMembers(x.m, 1, TRUE) \o <<"}">>

RECURSIVE MarshalArray(_, _)
MarshalArray(s, i) ==
    IF i > Len(s) THEN <<>>
    ELSE (IF i = 1 THEN <<>> ELSE <<",">>) \o <<Quote(s[i])>>
         \o MarshalArray(s, i + 1)

\* json.Marshal of a []string: null for the nil (empty) slice.
MarshalStrings(s) ==
    IF Len(s) = 0 THEN <<"null">> ELSE <<"[">> \o MarshalArray(s, 1) \o <<"]">>

\* json.Marshal(ev.DeprecatedSuggestedActions) of a non-nil pointer.
MarshalSuggestedActions(a) ==
    <<"{", "descriptions", ":">> \o MarshalStrings(a.descriptions)
    \o <<",", "repair_actions", ":">> \o MarshalStrings(a.repair_actions)
    \o <<"}">>

\* The tokens of a JSON text that are not strings: the punctuation, null
\* and the numbers.
Punctuation == {"{", "}", "[", "]", ":", ",", "null"}
Numbers == {"1", "2"}
IsString(tok) == tok \notin Punctuation \cup Numbers

\* The element of a set of one element. An intermediate result is bound as
\* the element of such a set, so that it is a value computed once.
The(S) == CHOOSE x \in S : TRUE

\* Where the JSON value that starts at toks[i] ends (0: malformed), and
\* where the array or object ends whose next element or member starts at
\* toks[i].
RECURSIVE ValueEnd(_, _)
RECURSIVE ArrayEnd(_, _, _)
RECURSIVE ObjectEnd(_, _, _)
ValueEnd(toks, i) ==
    IF i > Len(toks) THEN 0
    ELSE IF toks[i] = "[" THEN ArrayEnd(toks, i + 1, TRUE)
    ELSE IF toks[i] = "{" THEN ObjectEnd(toks, i + 1, TRUE)
    ELSE IF toks[i] = "null" \/ toks[i] \in Numbers \/ IsString(toks[i]) THEN i
    ELSE 0

ArrayEnd(toks, i, first) ==
    IF i > Len(toks) THEN 0
    ELSE IF first /\ toks[i] = "]" THEN i
    ELSE The({ IF e = 0 \/ e + 1 > Len(toks) THEN 0
               ELSE IF toks[e + 1] = "]" THEN e + 1
               ELSE IF toks[e + 1] = "," THEN ArrayEnd(toks, e + 2, FALSE)
               ELSE 0 : e \in {ValueEnd(toks, i)} })

ObjectEnd(toks, i, first) ==
    IF i > Len(toks) THEN 0
    ELSE IF first /\ toks[i] = "}" THEN i
    ELSE IF ~IsString(toks[i]) \/ i + 1 > Len(toks) \/ toks[i + 1] # ":" THEN 0
    ELSE The({ IF e = 0 \/ e + 1 > Len(toks) THEN 0
               ELSE IF toks[e + 1] = "}" THEN e + 1
               ELSE IF toks[e + 1] = "," THEN ObjectEnd(toks, e + 2, FALSE)
               ELSE 0 : e \in {ValueEnd(toks, i + 2)} })

\* json.Unmarshal checks the whole text first: one value and nothing after.
checkValid(toks) == Len(toks) > 0 /\ ValueEnd(toks, 1) = Len(toks)

\* The members of a well-formed object whose first key (or closing brace)
\* is toks[i], and the elements of a well-formed array likewise: where each
\* value starts and ends.
RECURSIVE ParseMembers(_, _)
ParseMembers(toks, i) ==
    IF toks[i] = "}" THEN <<>>
    ELSE The({ <<[key |-> Unquote(toks[i]), from |-> i + 2, to |-> e]>>
               \o (IF toks[e + 1] = "," THEN ParseMembers(toks, e + 2) ELSE <<>>)
               : e \in {ValueEnd(toks, i + 2)} })

RECURSIVE ParseElements(_, _)
ParseElements(toks, i) ==
    IF toks[i] = "]" THEN <<>>
    ELSE The({ <<[from |-> i, to |-> e]>>
               \o (IF toks[e + 1] = "," THEN ParseElements(toks, e + 2) ELSE <<>>)
               : e \in {ValueEnd(toks, i)} })

\* The value toks[from..to] decoded into a Go string: a JSON string gives
\* its text, null leaves the zero value, and anything else leaves the zero
\* value and is an UnmarshalTypeError (bad).
StringOf(toks, from, to) ==
    IF IsString(toks[from]) THEN [s |-> Unquote(toks[from]), bad |-> FALSE]
    ELSE [s |-> "", bad |-> toks[from] # "null"]

\* A []string field while a text is decoded: the slice (items), and the
\* strings of its backing array from the first on (mem), which a shorter
\* array leaves behind the end of the slice.
NilSlice == [items |-> <<>>, mem |-> <<>>]

\* The value that starts at toks[i] decoded into a []string that holds old.
\* null makes the slice nil. An array is decoded element by element into
\* the slice there is, lengthened over its backing array as needed: a
\* string is stored, null and what is no string leave the element as it
\* is, the latter as an UnmarshalTypeError (bad); the slice ends where the
\* array ends, and an empty array gives a new empty slice.
ArrayItems(toks, i, old) ==
    IF toks[i] = "null" THEN [items |-> <<>>, mem |-> <<>>, bad |-> FALSE]
    ELSE The({
           LET elem(k) ==
                   IF IsString(toks[es[k].from]) THEN Unquote(toks[es[k].from])
                   ELSE IF k <= Len(old.mem) THEN old.mem[k] ELSE ""
               items == [k \in 1..Len(es) |-> elem(k)]
           IN  [items |-> items,
                mem |-> IF Len(es) = 0 THEN <<>>
                        ELSE items \o SubSeq(old.mem, Len(es) + 1, Len(old.mem)),
                bad |-> \E k \in 1..Len(es) :
                            StringOf(toks, es[k].from, es[k].to).bad]
           : es \in {ParseElements(toks, i + 1)} })

ErrSyntax == "json: syntax error"
ErrType == "json: cannot unmarshal"

\* json.Unmarshal of a text into a nil map[string]string. A text that is
\* not well formed is a SyntaxError and nothing is stored. An object makes
\* the map; every member sets its key, to the string it holds or, when it
\* holds no string, to "", and the first such member that is not null is
\* the UnmarshalTypeError returned after the whole object was decoded.
UnmarshalMap(toks) ==
    IF ~checkValid(toks) THEN [err |-> ErrSyntax, v |-> NilMap]
    ELSE IF toks[1] = "null" THEN [err |-> NoError, v |-> NilMap]
    ELSE IF toks[1] # "{" THEN [err |-> ErrType, v |-> NilMap]
    ELSE The({
           LET keys == {ms[k].key : k \in 1..Len(ms)}
               lastOf(key) ==
                   CHOOSE k \in 1..Len(ms) :
                       /\ ms[k].key = key
                       /\ \A j \in (k + 1)..Len(ms) : ms[j].key # key
               m == [key \in keys |->
                        StringOf(toks, ms[lastOf(key)].from, ms[lastOf(key)].to).s]
           IN  [err |-> IF \E k \in 1..Len(ms) :
                              StringOf(toks, ms[k].from, ms[k].to).bad
                        THEN ErrType ELSE NoError,
                v |-> IF keys = {} THEN MapOf(<<>>) ELSE MapOf(m)]
           : ms \in {ParseMembers(toks, 2)} })

\* The field of apiv1.SuggestedActions a key names; encoding/json matches
\* the names of the fields without regard to case and skips other keys.
FieldOf(key) ==
    IF key \in {"descriptions", "Descriptions", "DESCRIPTIONS"} THEN "descriptions"
    ELSE IF key \in {"repair_actions", "Repair_Actions", "REPAIR_ACTIONS"}
         THEN "repair_actions"
         ELSE "none"

\* Whether the value that starts at toks[i] can be stored in a []string
\* field at all (an array or null).
IsSlice(toks, i) == toks[i] \in {"[", "null"}

\* The []string field after the first k members were decoded: each member
\* that names the field and holds an array or null is decoded into what the
\* members before it left there.
RECURSIVE SliceField(_, _, _, _)
SliceField(toks, ms, k, field) ==
    IF k = 0 THEN NilSlice
    ELSE The({ IF FieldOf(ms[k].key) = field /\ IsSlice(toks, ms[k].from)
               THEN [items |-> ArrayItems(toks, ms[k].from, old).items,
                     mem |-> ArrayItems(toks, ms[k].from, old).mem]
               ELSE old
               : old \in {SliceField(toks, ms, k - 1, field)} })

\* json.Unmarshal of a text into a nil *apiv1.SuggestedActions. Any value
\* but null allocates the struct; one that is no object is an
\* UnmarshalTypeError and leaves the struct empty. The members of an object
\* may be missing, in any order, repeated or unknown. A member of a field
\* that holds no array, or an array element that is no string, is an
\* UnmarshalTypeError.
UnmarshalSuggestedActions(toks) ==
    IF ~checkValid(toks) THEN [err |-> ErrSyntax, v |-> NilActions]
    ELSE IF toks[1] = "null" THEN [err |-> NoError, v |-> NilActions]
    ELSE IF toks[1] # "{" THEN [err |-> ErrType, v |-> ActionsOf(<<>>, <<>>)]
    ELSE The({
           LET bad(k) ==
                   /\ FieldOf(ms[k].key) # "none"
                   /\ \/ ~IsSlice(toks, ms[k].from)
                      \/ ArrayItems(toks, ms[k].from, NilSlice).bad
           IN  [err |-> IF \E k \in 1..Len(ms) : bad(k) THEN ErrType ELSE NoError,
                v |-> ActionsOf(
                        SliceField(toks, ms, Len(ms), "descriptions").items,
                        SliceField(toks, ms, Len(ms), "repair_actions").items)]
           : ms \in {ParseMembers(toks, 2)} })

\* ------------------------------------------------------------ errors, contexts

ErrCanceled == "context canceled"
ErrInvalidJSON == "invalid JSON"
ErrExtraInfo == "failed to unmarshal extra info"
ErrSuggestedActions == "failed to unmarshal suggested actions"

\* A request context is live, or already canceled (or past its deadline).
Contexts == {"live", "canceled"}

\* ------------------------------------------------------------ the record codec

\* A decoder that takes whatever is no object for absent.
unmarshalIfValid_SkipsInvalid(data, unmarshalled, v) ==
    IF ~data.Valid \/ Len(data.String) = 0 \/ data.String[1] # "{"
    THEN [err |-> NoError, v |-> v]
    ELSE IF unmarshalled.err = ErrSyntax THEN [err |-> ErrSyntax, v |-> v]
         ELSE unmarshalled

\* unmarshalIfValid(data, v): v is left as it was unless data holds a text
\* that begins with '{'; unmarshalled is what json.Unmarshal makes of
\* data.String and a nil v, and its error is returned as it is.
unmarshalIfValid(data, unmarshalled, v) ==
    IF ~data.Valid THEN [err |-> NoError, v |-> v]
    ELSE IF Len(data.String) = 0 \/ data.String = <<"null">>
         THEN [err |-> NoError, v |-> v]
         ELSE IF data.String[1] # "{"
              THEN [err |-> ErrInvalidJSON, v |-> v]
              ELSE IF unmarshalled.err = ErrSyntax
                   THEN [err |-> ErrSyntax, v |-> v]
                   ELSE unmarshalled

\* A parameter stored as it is bound.
NullIf_Keeps(s, empty) == Text(s)

\* NULLIF(?, ''): the empty text is stored as NULL.
NullIf(s, empty) == IF s = empty THEN Null(empty) ELSE Text(s)

\* The row the INSERT statement of insertEvent writes for ev.
RowOf(ev) ==
    LET extraInfoJSON ==
            IF ev.ExtraInfo.isNil THEN <<>> ELSE MarshalExtraInfo(ev.ExtraInfo)
        suggestedActionsJSON ==
            IF ev.SuggestedActions.isNil THEN <<>>
            ELSE MarshalSuggestedActions(ev.SuggestedActions)
    IN  [timestamp |-> Unix(ev.Time),
         name |-> ev.Name,
         type |-> ev.Type,
         message |-> NullIf(ev.Message, ""),
         extra_info |-> NullIf(extraInfoJSON, <<>>),
         suggested_actions |-> NullIf(suggestedActionsJSON, <<>>)]

\* scanRows: one result row decoded into an event, or the decoding error.
scanRows(r) ==
    LET base == [ZeroEvent EXCEPT !.Time = TimeOf(r.timestamp, 0),
                                  !.Name = r.name,
                                  !.Type = r.type,
                                  !.Message = IF r.message.Valid
                                              THEN r.message.String ELSE ""]
        ei == unmarshalIfValid(r.extra_info, UnmarshalMap(r.extra_info.String),
                               base.ExtraInfo)
        sa == unmarshalIfValid(r.suggested_actions,
                               UnmarshalSuggestedActions(r.suggested_actions.String),
                               base.SuggestedActions)
    IN  IF ei.err # NoError
        THEN [event |-> [base EXCEPT !.ExtraInfo = ei.v], err |-> ErrExtraInfo]
        ELSE IF sa.err # NoError
             THEN [event |-> [base EXCEPT !.ExtraInfo = ei.v,
                                          !.SuggestedActions = sa.v],
                   err |-> ErrSuggestedActions]
             ELSE [event |-> [base EXCEPT !.ExtraInfo = ei.v,
                                          !.SuggestedActions = sa.v],
                   err |-> NoError]

\* scanRow: the same decoding for the single row of QueryRowContext.
scanRow(r) == scanRows(r)

\* compareEvent that looks at the keys and not at their values.
compareEvent_KeysOnly(eventA, eventB) ==
    IF MapLen(eventA.ExtraInfo) # MapLen(eventB.ExtraInfo) THEN FALSE
    ELSE \A key \in DOMAIN eventA.ExtraInfo.m : key \in DOMAIN eventB.ExtraInfo.m

\* compareEvent without its length check.
compareEvent_NoLength(eventA, eventB) ==
    \A key \in DOMAIN eventA.ExtraInfo.m :
        /\ key \in DOMAIN eventB.ExtraInfo.m
        /\ eventB.ExtraInfo.m[key] = eventA.ExtraInfo.m[key]

\* compareEvent: the ExtraInfo equality Find applies to each candidate row.
compareEvent(eventA, eventB) ==
    IF MapLen(eventA.ExtraInfo) # MapLen(eventB.ExtraInfo) THEN FALSE
    ELSE \A key \in DOMAIN eventA.ExtraInfo.m :
            /\ key \in DOMAIN eventB.ExtraInfo.m
            /\ eventB.ExtraInfo.m[key] = eventA.ExtraInfo.m[key]

\* ------------------------------------------------------------ the statements

\* An insert that writes over the newest row instead of adding one.
insertEvent_Overwrites(c, tbl, ev) ==
    IF c = "canceled" THEN [tbl |-> tbl, err |-> ErrCanceled]
    ELSE [tbl |-> IF Len(tbl) = 0 THEN <<RowOf(ev)>>
                  ELSE [tbl EXCEPT ![Len(tbl)] = RowOf(ev)],
          err |-> NoError]

\* An insert that never consults its context.
insertEvent_IgnoresContext(c, tbl, ev) ==
    [tbl |-> Append(tbl, RowOf(ev)), err |-> NoError]

\* insertEvent that skips the INSERT when an identical row is stored.
insertEvent_Dedup(c, tbl, ev) ==
    IF c = "canceled" THEN [tbl |-> tbl, err |-> ErrCanceled]
    ELSE IF \E i \in 1..Len(tbl) : tbl[i] = RowOf(ev)
         THEN [tbl |-> tbl, err |-> NoError]
         ELSE [tbl |-> Append(tbl, RowOf(ev)), err |-> NoError]

\* insertEvent: one INSERT; a canceled context fails it before it runs.
insertEvent(c, tbl, ev) ==
    IF c = "canceled" THEN [tbl |-> tbl, err |-> ErrCanceled]
    ELSE [tbl |-> Append(tbl, RowOf(ev)), err |-> NoError]

\* The WHERE clause without the message condition.
FindWhere_NoMessage(r, ev) ==
    /\ r.timestamp = Unix(ev.Time)
    /\ r.name = ev.Name
    /\ r.type = ev.Type
    /\ (~ev.SuggestedActions.isNil =>
            (/\ r.suggested_actions.Valid
             /\ r.suggested_actions.String
                    = MarshalSuggestedActions(ev.SuggestedActions)))

\* The WHERE clause findEvent builds for the probe ev (a NULL column equals
\* nothing).
FindWhere(r, ev) ==
    /\ r.timestamp = Unix(ev.Time)
    /\ r.name = ev.Name
    /\ r.type = ev.Type
    /\ (ev.Message # "" => (r.message.Valid /\ r.message.String = ev.Message))
    /\ (~ev.SuggestedActions.isNil =>
            (/\ r.suggested_actions.Valid
             /\ r.suggested_actions.String
                    = MarshalSuggestedActions(ev.SuggestedActions)))

\* The rows.Next() loop of findEvent over the selected rows.
RECURSIVE FindScan(_, _, _)
FindScan(selected, i, ev) ==
    IF i > Len(selected) THEN [found |-> NilEvent, err |-> NoError]
    ELSE LET s == scanRows(selected[i])
         IN  IF s.err # NoError THEN [found |-> NilEvent, err |-> s.err]
             ELSE IF compareEvent(s.event, ev)
                  THEN [found |-> PtrTo(s.event), err |-> NoError]
                  ELSE FindScan(selected, i + 1, ev)

\* findEvent: the rows the SELECT matches, in rowid order, then the scan.
findEvent(c, tbl, ev) ==
    IF c = "canceled" THEN [found |-> NilEvent, err |-> ErrCanceled]
    ELSE FindScan(SelectSeq(tbl, LAMBDA r : FindWhere(r, ev)), 1, ev)

\* s without its i-th element.
RemoveAt(s, i) == SubSeq(s, 1, i - 1) \o SubSeq(s, i + 1, Len(s))

\* The rows left in rowid order (no ORDER BY).
OrderByRowid(s) == s

\* ORDER BY timestamp DESC, as the backward scan of the timestamp index
\* yields it: greatest timestamp first, and the greatest rowid first among
\* equal timestamps.
RECURSIVE OrderByTimestampDesc(_)
OrderByTimestampDesc(s) ==
    IF Len(s) = 0 THEN <<>>
    ELSE LET i == CHOOSE i \in 1..Len(s) :
                    \A j \in 1..Len(s) :
                        \/ s[j].timestamp < s[i].timestamp
                        \/ (s[j].timestamp = s[i].timestamp /\ j <= i)
         IN  <<s[i]>> \o OrderByTimestampDesc(RemoveAt(s, i))

\* A loop that passes over the row it cannot decode.
RECURSIVE GetScan_SkipsBadRow(_, _, _)
GetScan_SkipsBadRow(selected, i, events) ==
    IF i > Len(selected)
    THEN [events |-> IF Len(events) = 0 THEN NilEvents ELSE EventsOf(events),
          err |-> NoError]
    ELSE LET s == scanRows(selected[i])
         IN  IF s.err # NoError THEN GetScan_SkipsBadRow(selected, i + 1, events)
             ELSE GetScan_SkipsBadRow(selected, i + 1, Append(events, s.event))

\* The rows.Next() loop of getEvents.
RECURSIVE GetScan(_, _, _)
GetScan(selected, i, events) ==
    IF i > Len(selected)
    THEN [events |-> IF Len(events) = 0 THEN NilEvents ELSE EventsOf(events),
          err |-> NoError]
    ELSE LET s == scanRows(selected[i])
         IN  IF s.err # NoError THEN [events |-> NilEvents, err |-> s.err]
             ELSE GetScan(selected, i + 1, Append(events, s.event))

\* getEvents with WHERE timestamp >= since.
getEvents_Inclusive(c, tbl, since) ==
    IF c = "canceled" THEN [events |-> NilEvents, err |-> ErrCanceled]
    ELSE GetScan(OrderByTimestampDesc(
                     SelectSeq(tbl, LAMBDA r : r.timestamp >= Unix(since))),
                 1, <<>>)

\* getEvents: WHERE timestamp > since ORDER BY timestamp DESC.
getEvents(c, tbl, since) ==
    IF c = "canceled" THEN [events |-> NilEvents, err |-> ErrCanceled]
    ELSE GetScan(OrderByTimestampDesc(
                     SelectSeq(tbl, LAMBDA r : r.timestamp > Unix(since))),
                 1, <<>>)

\* lastEvent that takes the row inserted last (ORDER BY rowid DESC).
lastEvent_ByRowid(c, tbl) ==
    IF c = "canceled" THEN [found |-> NilEvent, err |-> ErrCanceled]
    ELSE IF Len(tbl) = 0 THEN [found |-> NilEvent, err |-> NoError]
    ELSE [found |-> PtrTo(scanRow(tbl[Len(tbl)]).event), err |-> NoError]

\* lastEvent: ORDER BY timestamp DESC LIMIT 1; sql.ErrNoRows becomes nil.
lastEvent(c, tbl) ==
    IF c = "canceled" THEN [found |-> NilEvent, err |-> ErrCanceled]
    ELSE IF Len(tbl) = 0 THEN [found |-> NilEvent, err |-> NoError]
    ELSE LET s == scanRow(OrderByTimestampDesc(tbl)[1])
         IN  IF s.err # NoError THEN [found |-> NilEvent, err |-> s.err]
             ELSE [found |-> PtrTo(s.event), err |-> NoError]

\* A purge that deletes the oldest row below the cutoff and no other.
purgeEvents_DeletesOne(c, tbl, beforeTimestamp) ==
    IF c = "canceled" THEN [tbl |-> tbl, n |-> 0, err |-> ErrCanceled]
    ELSE LET below == {i \in 1..Len(tbl) : tbl[i].timestamp < beforeTimestamp}
         IN  IF below = {} THEN [tbl |-> tbl, n |-> 0, err |-> NoError]
             ELSE LET i == CHOOSE i \in below : \A j \in below : i <= j
                  IN  [tbl |-> SubSeq(tbl, 1, i - 1) \o SubSeq(tbl, i + 1, Len(tbl)),
                       n |-> 1, err |-> NoError]

\* purgeEvents with DELETE WHERE timestamp <= beforeTimestamp.
purgeEvents_Inclusive(c, tbl, beforeTimestamp) ==
    IF c = "canceled" THEN [tbl |-> tbl, n |-> 0, err |-> ErrCanceled]
    ELSE LET kept == SelectSeq(tbl, LAMBDA r : ~(r.timestamp <= beforeTimestamp))
         IN  [tbl |-> kept, n |-> Len(tbl) - Len(kept), err |-> NoError]

\* purgeEvents that returns the number of rows it examined.
purgeEvents_CountsExamined(c, tbl, beforeTimestamp) ==
    IF c = "canceled" THEN [tbl |-> tbl, n |-> 0, err |-> ErrCanceled]
    ELSE LET kept == SelectSeq(tbl, LAMBDA r : ~(r.timestamp < beforeTimestamp))
         IN  [tbl |-> kept, n |-> Len(tbl), err |-> NoError]

\* purgeEvents: DELETE WHERE timestamp < beforeTimestamp, and RowsAffected.
purgeEvents(c, tbl, beforeTimestamp) ==
    IF c = "canceled" THEN [tbl |-> tbl, n |-> 0, err |-> ErrCanceled]
    ELSE LET kept == SelectSeq(tbl, LAMBDA r : ~(r.timestamp < beforeTimestamp))
         IN  [tbl |-> kept, n |-> Len(tbl) - Len(kept), err |-> NoError]

\* ------------------------------------------------------------ inputs

\* The event component.Check persists, and variations of it in every field.
BaseEvent ==
    [Time |-> TimeOf(1, 0), Name |-> "ibstat", Type |-> "Warning",
     Message |-> "", ExtraInfo |-> NilMap, SuggestedActions |-> NilActions]

Actions1 == ActionsOf(<<"d1">>, <<"HARDWARE_INSPECTION">>)
Actions2 == ActionsOf(<<"d2">>, <<>>)

AtTime(t) == [BaseEvent EXCEPT !.Time = t]
WithExtraInfo(x) == [BaseEvent EXCEPT !.ExtraInfo = x]
WithPayload(msg, a) == [BaseEvent EXCEPT !.Message = msg, !.SuggestedActions = a]

\* The events callers insert.
InsertEvents ==
    { BaseEvent,
      AtTime(TimeOf(1, 500000000)),
      AtTime(TimeOf(-2, 0)),
      AtTime(TimeOf(0, 0)),
      WithExtraInfo(MapOf([k \in {"a"} |-> "b"])),
      WithExtraInfo(MapOf([k \in {"a"} |-> InvalidUTF8])),
      WithPayload("m1", Actions1) }

\* The probes callers pass to Find: the inserted events and near misses.
ProbeEvents ==
    InsertEvents \cup
    { WithExtraInfo(MapOf(<<>>)),
      WithExtraInfo(MapOf([k \in {"a"} |-> "c"])),
      WithExtraInfo(MapOf([k \in {"a", "c"} |-> IF k = "a" THEN "b" ELSE "d"])),
      WithExtraInfo(MapOf([k \in {"a"} |-> ReplacementRune])),
      WithPayload("m2", NilActions),
      WithPayload("m1", NilActions),
      WithPayload("", Actions1),
      WithPayload("", Actions2),
      [BaseEvent EXCEPT !.Name = "kmsg"],
      [BaseEvent EXCEPT !.Type = "Info"] }

\* The `since` arguments of Get and the cutoffs of Purge.
Sinces == {TimeOf(-3, 0), TimeOf(-2, 500000000), TimeOf(0, 0), TimeOf(1, 0)}
Cutoffs == {-2, 0, 1, 2}

\* The arguments tried under the context c: a call on a canceled context
\* fails whatever its arguments are, so one argument stands for all.
Under(c, args) == IF c = "live" THEN args ELSE {CHOOSE x \in args : TRUE}

\* The goroutines that run component.Check on the bucket.
Writers == {"w1", "w2"}

\* ------------------------------------------------------------ the Store

\* time.Second, with a time.Duration counted in milliseconds.
Second == 1000

\* The Store retentions New is called with: none, the one-second boundary,
\* one whose fifth is below a second and one whose fifth is above it.
Retentions == {0, Second, 2 * Second, 10 * Second}

\* A name is the sequence of its characters.
BucketNames == {<<"a">>, <<"b">>}

\* strings.ReplaceAll: the non-overlapping matches, from the left.
RECURSIVE ReplaceAll(_, _, _)
ReplaceAll(s, old, new) ==
    IF Len(s) < Len(old) THEN s
    ELSE IF SubSeq(s, 1, Len(old)) = old
         THEN new \o ReplaceAll(SubSeq(s, Len(old) + 1, Len(s)), old, new)
         ELSE <<s[1]>> \o ReplaceAll(Tail(s), old, new)

\* strings.ToLower over the letters the names of the model use.
ToLower(s) ==
    [i \in 1..Len(s) |->
        CASE s[i] = "A" -> "a" [] s[i] = "B" -> "b" [] s[i] = "T" -> "t"
          [] OTHER -> s[i]]

\* defaultTableName: spaces and hyphens to underscores, one pass that turns
\* "__" into "_", lower case, then the fixed prefix and the schema version.
defaultTableName(componentName) ==
    LET c1 == ReplaceAll(componentName, <<" ">>, <<"_">>)
        c2 == ReplaceAll(c1, <<"-">>, <<"_">>)
        c3 == ReplaceAll(c2, <<"_", "_">>, <<"_">>)
    IN  <<"components_">> \o ToLower(c3) \o <<"_events_", "v0_4_0">>

\* The logical names handed to defaultTableName: up to MaxName characters,
\* letters of both cases and the two separators.
MaxName == 3
NameChars == {"a", "B", " ", "-"}
Names == UNION {[1..n -> NameChars] : n \in 0..MaxName}

\* Go's integer division, which truncates toward zero.
Quo(a, b) == IF a >= 0 THEN a \div b ELSE -((-a) \div b)

\* A purge interval without the floor of one second.
PurgeIntervalOf_NoFloor(retention) == Quo(retention, 5)

\* The purge interval Bucket derives: a fifth of the retention, at least a second.
PurgeIntervalOf(retention) ==
    LET fifth == Quo(retention, 5)
    IN  IF fifth < Second THEN Second ELSE fifth

\* Bucket up to its call of newTable: d is the Store's retention field before,
\* the result holds the field afterwards and the purge interval handed on.
\* With disablePurge the Store's own field is set to zero.
Bucket(d, disablePurge) ==
    IF disablePurge THEN [d |-> 0, purgeInterval |-> 0]
    ELSE [d |-> d, purgeInterval |-> PurgeIntervalOf(d)]

\* A LoadBucketWithNoPurge that goes through Bucket's disablePurge branch.
LoadBucketWithNoPurge_ViaOption(d) ==
    [d |-> Bucket(d, TRUE).d, retention |-> 0, purgeInterval |-> 0]

\* LoadBucketWithNoPurge: newTable with no retention and no interval; the
\* Store's retention field is not touched.
LoadBucketWithNoPurge(d) == [d |-> d, retention |-> 0, purgeInterval |-> 0]

\* A purge loop that starts for any positive retention.
StartsPurge_AnyRetention(retention) == retention > 0

\* newTable's guard of "go t.runPurge()".
StartsPurge(retention) == retention > Second

\* The table struct newTable returns once createTable succeeded; purger says
\* whether the purge goroutine was started.
newTable(tableName, retention, purgeInterval) ==
    [table |-> tableName, retention |-> retention,
     purgeInterval |-> purgeInterval, purger |-> StartsPurge(retention)]

\* The four statements of createTable, in order, and the object each creates.
Statements == <<"CreateTable", "IndexTimestamp", "IndexName", "IndexType">>

ObjectOf(statement, tableName) ==
    CASE statement = "CreateTable" -> tableName
      [] statement = "IndexTimestamp" -> <<"idx_">> \o tableName \o <<"_timestamp">>
      [] statement = "IndexName" -> <<"idx_">> \o tableName \o <<"_name">>
      [] statement = "IndexType" -> <<"idx_">> \o tableName \o <<"_type">>

AfterStatement(statement) ==
    CASE statement = "CreateTable" -> "IndexTimestamp"
      [] statement = "IndexTimestamp" -> "IndexName"
      [] statement = "IndexName" -> "IndexType"
      [] statement = "IndexType" -> "Commit"

Exists(objects, name) == \E i \in 1..Len(objects) : objects[i] = name

ErrBusy == "database is locked"
ErrExists == "already exists"

\* CREATE without IF NOT EXISTS: an object that is there is an error.
Create_FailsIfExists(visible, name) ==
    IF Exists(visible, name) THEN [created |-> <<>>, err |-> ErrExists]
    ELSE [created |-> <<name>>, err |-> NoError]

\* CREATE TABLE / CREATE INDEX ... IF NOT EXISTS against the objects the
\* transaction sees: nothing to do when the object is there.
CreateIfNotExists(visible, name) ==
    IF Exists(visible, name) THEN [created |-> <<>>, err |-> NoError]
    ELSE [created |-> <<name>>, err |-> NoError]

\* A rollback that leaves what the transaction had created.
Rollback_KeepsCreated(objects, pending) == objects \o pending

\* tx.Rollback, and a crash before tx.Commit: the schema is the committed
\* one, without anything the transaction created.
Rollback(objects, pending) == objects

\* An engine that takes any text for a table name.
EngineAccepts_Any(tableName) == TRUE

\* The engine parses the statement: a table name with a ';' in it ends the
\* statement early and what is left is no valid SQL.
EngineAccepts(tableName) == \A i \in 1..Len(tableName) : tableName[i] # ";"

ErrSQL == "SQL logic error: syntax error"

\* The names callers ask for when creation can fail: the bucket names and
\* one that is no safe table name.
CreateNames == BucketNames \cup {<<"a", ";", "b">>}

\* The goroutines that ask the Store for buckets.
Creators == {"c1", "c2"}

\* The handles the Store hands out in one run of the model.
MaxHandles == 2

\* ------------------------------------------------------------ one handle

\* time.Time.Add, for a duration in milliseconds.
Add(t, d) ==
    LET ms == t.sec * 1000 + (t.nsec \div 1000000) + d
    IN  TimeOf(ms \div 1000, (ms % 1000) * 1000000)

\* A cutoff that forgets the retention.
PurgeCutoff_Now(t, retention) == Unix(t)

\* runPurge's cutoff: now.Add(-t.retention).Unix().
PurgeCutoff(t, retention) == Unix(Add(t, -retention))

\* A loop that gives up after a failed purge.
AfterPurge_StopsOnError(err) == IF err # NoError THEN "exited" ELSE "select"

\* runPurge after t.Purge returned: it logs the error or the count and goes
\* round the loop, back to its select.
AfterPurge(err) == "select"

\* A select whose Done case is always ready.
SelectDone_Always(canceled) == TRUE

\* runPurge's "case <-t.rootCtx.Done()": ready once the context is canceled.
SelectDone(canceled) == canceled

\* A cancel function that flips the context back on its second call.
rootCancel_Toggles(canceled) == ~canceled

\* context.CancelFunc: cancels the context; calling it again does nothing.
rootCancel(canceled) == TRUE

\* A purge that drops the table and its indexes with the rows.
SchemaAfterPurge_DropsTable(objects, tableName) ==
    SelectSeq(objects, LAMBDA o :
        \A k \in 1..Len(Statements) : o # ObjectOf(Statements[k], tableName))

\* purgeEvents's DELETE FROM removes rows; the schema stays as it is.
SchemaAfterPurge(objects, tableName) == objects

ErrNoTable == "no such table"
ErrEngine == "disk I/O error"

\* The clock runs in half seconds up to MaxNow seconds.
MaxNow == 4
HalfSecond == Second \div 2

\* Close calls counted in a row.
MaxCloses == 2

\* The events written through the handle: three timestamps.
ClockEvents == {AtTime(TimeOf(-2, 0)), AtTime(TimeOf(0, 0)), BaseEvent}

\* The ways a handle comes out of a Store.
Ways == {"Bucket", "BucketNoPurge", "LoadBucketWithNoPurge"}

\* ------------------------------------------------------------ state

VARIABLES
    rows,   \* the bucket's table: its rows in rowid order
    hist,   \* history: for each stored row, the event whose Insert wrote it
    last,   \* the last bucket call: its arguments, the table before, its results
    pc,     \* per writer: where it stands in the Find-before-Insert protocol
    wev,    \* per writer: the event it checked with Find
    dRetention,  \* the Store: its retention field (d.retention)
    configured,  \* the retention New was called with
    catalog,     \* the database schema: the committed tables and indexes
    wlock,       \* the creator whose transaction holds the write lock
    calls,       \* per creator: where its Bucket call stands
    handles,     \* the table structs the Store has returned, in order, each
                 \* with the call that made it
    handle,      \* one bucket handle: the table struct its owner holds
    closed,      \* that handle's rootCtx is canceled
    loop,        \* where that handle's runPurge goroutine stands
    now,         \* the clock
    logged,      \* what runPurge logged after its last purge
    purgeNow,    \* runPurge's local now: the clock as the loop last read it
    input,       \* the argument handed to the function under study
    output,      \* what the function returned for it
    scraper,     \* the Scraper of a Syncer (mockScraper)
    mstore,      \* the MetricsStore of a Syncer (mockStore)
    syncer,      \* the Syncer: its context, its two loops, its last sync()
    component    \* a component that keeps its events in a bucket of the Store

storeVars == <<dRetention, configured, catalog, wlock, calls, handles>>
handleVars == <<handle, closed, loop, now, logged, purgeNow>>
bucketVars == <<rows, hist, last, pc, wev>>
pureVars == <<input, output>>
collabVars == <<scraper, mstore, syncer, component>>

vars == <<rows, hist, last, pc, wev, storeVars, handleVars, pureVars,
         collabVars>>

NoCall ==
    [op |-> "none", ctx |-> "live", ev |-> ZeroEvent, since |-> TimeOf(0, 0),
     cutoff |-> 0, before |-> <<>>, events |-> NilEvents, found |-> NilEvent,
     n |-> 0, err |-> NoError]

\* A creator that is not inside a Bucket call.
NoCreate ==
    [pc |-> "idle", op |-> "none", table |-> <<>>, retention |-> 0,
     purgeInterval |-> 0, pending |-> <<>>, err |-> NoError]

\* Nothing logged yet by a purge loop.
NoLog == [purged |-> 0, err |-> NoError]

\* No function is under study.
NoValue == [isNone |-> TRUE]
NoStudy == input = NoValue /\ output = NoValue

\* No Syncer was made.
NoSyncer ==
    /\ scraper = [isNone |-> TRUE]
    /\ mstore = [isNone |-> TRUE]
    /\ syncer = [isNone |-> TRUE]

\* No component was made.
NoComponent == [isNone |-> TRUE]

\* The bucket's table is empty and no call was made.
EmptyBucket ==
    /\ rows = <<>>
    /\ hist = <<>>
    /\ last = NoCall
    /\ pc = [w \in Writers |-> "idle"]
    /\ wev = [w \in Writers |-> ZeroEvent]

InitBucket == EmptyBucket /\ NoSyncer /\ component = NoComponent

\* New(dbRW, dbRO, retention): a Store over an empty database.
New(retention) ==
    /\ dRetention = retention
    /\ configured = retention
    /\ catalog = <<>>
    /\ wlock = "none"
    /\ calls = [c \in Creators |-> NoCreate]
    /\ handles = <<>>

\* The objects createTable leaves in the schema for one table.
TableObjects(tableName) ==
    [k \in 1..Len(Statements) |-> ObjectOf(Statements[k], tableName)]

\* The handle under study is t, fresh from newTable, at clock zero.
Holding(t) ==
    /\ handle = t
    /\ closed = FALSE
    /\ loop = IF t.purger THEN "select" ELSE "none"
    /\ now = TimeOf(0, 0)
    /\ logged = NoLog
    /\ purgeNow = TimeOf(0, 0)

\* The Store once New(retention) and one creation that returned t are over:
\* d is what the creation left in the Store's retention field.
StoreAfter(retention, d, t, by) ==
    /\ dRetention = d
    /\ configured = retention
    /\ catalog = TableObjects(t.table)
    /\ wlock = "none"
    /\ calls = [c \in Creators |-> NoCreate]
    /\ handles = <<[t |-> t, by |-> by]>>

\* The bucket of the test suite: New(dbRW, dbRO, 0) and store.Bucket(name),
\* whose handle has no purge loop.
TestBucket ==
    LET b == Bucket(0, FALSE)
        t == newTable(defaultTableName(<<"a">>), b.d, b.purgeInterval)
    IN  StoreAfter(0, b.d, t, "Bucket") /\ Holding(t)

Init ==
    /\ InitBucket
    /\ NoStudy
    /\ TestBucket

\* ------------------------------------------------------------ bucket calls

\* table.Insert(ctx, ev)
Insert(c, ev) ==
    /\ Len(rows) < MaxRows
    /\ LET r == insertEvent(c, rows, ev)
       IN  /\ rows' = r.tbl
           /\ hist' = IF r.err = NoError THEN Append(hist, ev) ELSE hist
           /\ last' = [NoCall EXCEPT !.op = "Insert", !.ctx = c, !.ev = ev,
                                     !.before = rows, !.err = r.err]
    /\ UNCHANGED <<pc, wev>>

\* table.Find(ctx, ev)
Find(c, ev) ==
    /\ LET r == findEvent(c, rows, ev)
       IN  last' = [NoCall EXCEPT !.op = "Find", !.ctx = c, !.ev = ev,
                                  !.before = rows, !.found = r.found,
                                  !.err = r.err]
    /\ UNCHANGED <<rows, hist, pc, wev>>

\* table.Get(ctx, since)
Get(c, since) ==
    /\ LET r == getEvents(c, rows, since)
       IN  last' = [NoCall EXCEPT !.op = "Get", !.ctx = c, !.since = since,
                                  !.before = rows, !.events = r.events,
                                  !.err = r.err]
    /\ UNCHANGED <<rows, hist, pc, wev>>

\* table.Latest(ctx)
Latest(c) ==
    /\ LET r == lastEvent(c, rows)
       IN  last' = [NoCall EXCEPT !.op = "Latest", !.ctx = c, !.before = rows,
                                  !.found = r.found, !.err = r.err]
    /\ UNCHANGED <<rows, hist, pc, wev>>

\* table.Purge(ctx, beforeTimestamp)
Purge(c, beforeTimestamp) ==
    /\ LET r == purgeEvents(c, rows, beforeTimestamp)
       IN  /\ rows' = r.tbl
           /\ hist' = IF r.err = NoError
                      THEN SelectSeq(hist, LAMBDA e : ~(beforeTimestamp > Unix(e.Time)))
                      ELSE hist
           /\ last' = [NoCall EXCEPT !.op = "Purge", !.ctx = c,
                                     !.cutoff = beforeTimestamp,
                                     !.before = rows, !.n = r.n, !.err = r.err]
    /\ UNCHANGED <<pc, wev>>

\* ------------------------------------------------------------ component.Check

\* The lookup of component.Check: Find, and return unless it found nothing.
WriterFind(w, c, ev) ==
    /\ pc[w] = "idle"
    /\ LET r == findEvent(c, rows, ev)
       IN  IF r.err = NoError /\ r.found.isNil
           THEN /\ pc' = [pc EXCEPT ![w] = "insert"]
                /\ wev' = [wev EXCEPT ![w] = ev]
           ELSE UNCHANGED <<pc, wev>>
    /\ UNCHANGED <<rows, hist, last>>

\* The insert of component.Check, after its lookup found nothing.
WriterInsert(w, c) ==
    /\ pc[w] = "insert"
    /\ Len(rows) < MaxRows
    /\ LET r == insertEvent(c, rows, wev[w])
       IN  /\ rows' = r.tbl
           /\ hist' = IF r.err = NoError THEN Append(hist, wev[w]) ELSE hist
    /\ pc' = [pc EXCEPT ![w] = "idle"]
    /\ wev' = [wev EXCEPT ![w] = ZeroEvent]
    /\ UNCHANGED last

\* ------------------------------------------------------------ specifications

\* Callers use the bucket through its five operations.
Next ==
    \/ \E c \in Contexts : \E ev \in Under(c, InsertEvents) :
            Insert(c, ev) /\ UNCHANGED <<storeVars, handleVars, collabVars, pureVars>>
    \/ \E c \in Contexts : \E ev \in Under(c, ProbeEvents) :
            Find(c, ev) /\ UNCHANGED <<storeVars, handleVars, collabVars, pureVars>>
    \/ \E c \in Contexts : \E since \in Under(c, Sinces) :
            Get(c, since) /\ UNCHANGED <<storeVars, handleVars, collabVars, pureVars>>
    \/ \E c \in Contexts :
            Latest(c) /\ UNCHANGED <<storeVars, handleVars, collabVars, pureVars>>
    \/ \E c \in Contexts : \E t \in Under(c, Cutoffs) :
            Purge(c, t) /\ UNCHANGED <<storeVars, handleVars, collabVars, pureVars>>

Spec == Init /\ [][Next]_vars

\* Every writer of the bucket follows the Find-before-Insert protocol.
NextDedup ==
    \/ \E w \in Writers, c \in Contexts :
            \E ev \in Under(c, InsertEvents) :
                WriterFind(w, c, ev) /\ UNCHANGED <<storeVars, handleVars, collabVars, pureVars>>
    \/ \E w \in Writers, c \in Contexts :
            WriterInsert(w, c) /\ UNCHANGED <<storeVars, handleVars, collabVars, pureVars>>

SpecDedup == Init /\ [][NextDedup]_vars

\* ------------------------------------------------------------ creating buckets

InFlight == {c \in Creators : calls[c].pc # "idle"}

\* A creator may start a call while the run has handles left to hand out.
MayCall(c) ==
    /\ calls[c].pc = "idle"
    /\ Len(handles) + Cardinality(InFlight) < MaxHandles

\* The creator's call returns err without a handle: createTable rolled its
\* transaction back, which gives up the write lock and what it had created.
\* The call's record keeps what was rolled back.
Failed(c, err) ==
    /\ calls' = [calls EXCEPT ![c] =
                    [NoCreate EXCEPT !.op = calls[c].op, !.table = calls[c].table,
                                     !.pending = calls[c].pending, !.err = err]]
    /\ wlock' = IF wlock = c THEN "none" ELSE wlock
    /\ catalog' = Rollback(catalog, calls[c].pending)
    /\ UNCHANGED <<dRetention, configured, handles>>

\* d.Bucket(name, opts...) up to its call of newTable.
CallBucket(c, name, disablePurge) ==
    /\ MayCall(c)
    /\ LET b == Bucket(dRetention, disablePurge)
       IN  /\ dRetention' = b.d
           /\ calls' = [calls EXCEPT ![c] =
                    [NoCreate EXCEPT !.pc = "newTable",
                                     !.op = IF disablePurge THEN "BucketNoPurge"
                                            ELSE "Bucket",
                                     !.table = defaultTableName(name),
                                     !.purgeInterval = b.purgeInterval]]
    /\ UNCHANGED <<configured, catalog, wlock, handles>>

\* d.LoadBucketWithNoPurge(name) up to its call of newTable.
CallLoadBucketWithNoPurge(c, name) ==
    /\ MayCall(c)
    /\ LET b == LoadBucketWithNoPurge(dRetention)
       IN  /\ dRetention' = b.d
           /\ calls' = [calls EXCEPT ![c] =
                    [NoCreate EXCEPT !.pc = "newTable",
                                     !.op = "LoadBucketWithNoPurge",
                                     !.table = defaultTableName(name),
                                     !.retention = b.retention,
                                     !.purgeInterval = b.purgeInterval]]
    /\ UNCHANGED <<configured, catalog, wlock, handles>>

\* The call of newTable: Bucket passes d.retention as it reads it now, which
\* another creator may have written since this call computed its interval;
\* createTable then begins its transaction.
EnterNewTable(c) ==
    /\ calls[c].pc = "newTable"
    /\ calls' = [calls EXCEPT ![c].pc = "CreateTable",
                              ![c].retention =
                                  IF calls[c].op = "LoadBucketWithNoPurge"
                                  THEN calls[c].retention ELSE dRetention]
    /\ UNCHANGED <<dRetention, configured, catalog, wlock, handles>>

\* One statement of createTable. It sees the committed schema and what its
\* own transaction created. Creating an object needs the write lock, which
\* one transaction holds at a time; finding the object there needs none.
Exec(c) ==
    /\ \E k \in 1..Len(Statements) : calls[c].pc = Statements[k]
    /\ LET name == ObjectOf(calls[c].pc, calls[c].table)
           r == IF EngineAccepts(calls[c].table)
                THEN CreateIfNotExists(catalog \o calls[c].pending, name)
                ELSE [created |-> <<>>, err |-> ErrSQL]
       IN  IF r.err # NoError THEN Failed(c, r.err)
           ELSE /\ r.created # <<>> => wlock \in {"none", c}
                /\ wlock' = IF r.created # <<>> THEN c ELSE wlock
                /\ calls' = [calls EXCEPT
                                ![c].pc = AfterStatement(calls[c].pc),
                                ![c].pending = calls[c].pending \o r.created]
                /\ UNCHANGED <<dRetention, configured, catalog, handles>>

\* The statement needs the write lock while another transaction holds it,
\* and the engine gives up waiting: the statement fails, createTable rolls
\* back and returns the error.
ExecBusy(c) ==
    /\ \E k \in 1..Len(Statements) : calls[c].pc = Statements[k]
    /\ ~Exists(catalog \o calls[c].pending,
               ObjectOf(calls[c].pc, calls[c].table))
    /\ wlock \notin {"none", c}
    /\ Failed(c, ErrBusy)

\* tx.Commit, and the rest of newTable: the table struct is built, its purge
\* goroutine started if the retention asks for one, and the handle returned.
Commit(c) ==
    /\ calls[c].pc = "Commit"
    /\ catalog' = catalog \o calls[c].pending
    /\ wlock' = IF wlock = c THEN "none" ELSE wlock
    /\ handles' = Append(handles,
                         [t |-> newTable(calls[c].table, calls[c].retention,
                                         calls[c].purgeInterval),
                          by |-> calls[c].op])
    /\ calls' = [calls EXCEPT ![c] = [NoCreate EXCEPT !.op = calls[c].op]]
    /\ UNCHANGED <<dRetention, configured>>

\* A creator inside createTable moves on.
Step(c) == EnterNewTable(c) \/ Exec(c) \/ Commit(c)

InitStore ==
    /\ InitBucket
    /\ NoStudy
    /\ \E retention \in Retentions : New(retention)
    /\ Holding(newTable(<<>>, 0, 0))

\* Goroutines ask one Store for buckets, concurrently.
NextStore ==
    \/ \E c \in Creators, name \in BucketNames, disablePurge \in BOOLEAN :
            CallBucket(c, name, disablePurge)
                /\ UNCHANGED <<bucketVars, handleVars, collabVars, pureVars>>
    \/ \E c \in Creators, name \in BucketNames :
            CallLoadBucketWithNoPurge(c, name)
                /\ UNCHANGED <<bucketVars, handleVars, collabVars, pureVars>>
    \/ \E c \in Creators : EnterNewTable(c) /\ UNCHANGED <<bucketVars, handleVars, collabVars, pureVars>>
    \/ \E c \in Creators : Exec(c) /\ UNCHANGED <<bucketVars, handleVars, collabVars, pureVars>>
    \/ \E c \in Creators : ExecBusy(c) /\ UNCHANGED <<bucketVars, handleVars, collabVars, pureVars>>
    \/ \E c \in Creators : Commit(c) /\ UNCHANGED <<bucketVars, handleVars, collabVars, pureVars>>

SpecStore == InitStore /\ [][NextStore]_vars

\* ------------------------------------------------------------ deriving names

\* A caller holds a logical name.
InitName ==
    /\ InitBucket
    /\ TestBucket
    /\ input \in Names
    /\ output = NoValue

\* defaultTableName(input)
Derive ==
    /\ output = NoValue
    /\ output' = defaultTableName(input)
    /\ UNCHANGED <<input, bucketVars, storeVars, handleVars, collabVars>>

\* The caller takes up another name.
NextName ==
    /\ output # NoValue
    /\ input' \in Names
    /\ output' = NoValue
    /\ UNCHANGED <<bucketVars, storeVars, handleVars, collabVars>>

SpecName == InitName /\ [][Derive \/ NextName]_vars

\* ------------------------------------------------------------ decoding a column

\* The texts found in an extra_info or suggested_actions column: every text
\* of up to MaxText tokens, and some longer ones, well formed and not.
MaxText == 3
DecodeTokens == {"{", "}", "a", ":", "null", "["}
StoredTexts ==
    UNION {[1..n -> DecodeTokens] : n \in 0..MaxText}
    \cup { <<"{", "a", ":", "b", "}">>,
           <<"{", "a", ":", "b", "}", "}">>,
           <<"{", "a", ":", "b", ",">>,
           <<"[", "1", ",", "2", "]">>,
           MarshalSuggestedActions(Actions1),
           SubSeq(MarshalSuggestedActions(Actions1), 1, 6),
           <<"{", "repair_actions", ":", "[", "HARDWARE_INSPECTION", "]", ",",
             "descriptions", ":", "[", "d1", "]", "}">>,
           <<"{", "descriptions", ":", "[", "d1", "]", "}">>,
           <<"{", "Descriptions", ":", "[", "d1", ",", "null", "]", "}">>,
           <<"{", "descriptions", ":", "d1", "}">>,
           <<"{", "descriptions", ":", "[", "1", "]", ",", "x", ":", "{", "}", "}">>,
           <<"{", "a", ":", "1", ",", "c", ":", "d", "}">>,
           <<"{", "a", ":", "b", ",", "a", ":", "d", "}">>,
           <<"{", "descriptions", ":", "[", "d1", "]", ",",
             "descriptions", ":", "[", "null", "]", "}">>,
           <<"{", "descriptions", ":", "[", "d1", ",", "d2", "]", ",",
             "descriptions", ":", "[", "1", "]", "}">>,
           <<"{", "descriptions", ":", "[", "d1", ",", "d2", "]", ",",
             "descriptions", ":", "[", "d3", "]", ",",
             "descriptions", ":", "[", "null", ",", "null", ",", "null", "]", "}">>,
           <<"{", "descriptions", ":", "[", "d1", "]", ",",
             "descriptions", ":", "[", "]", ",",
             "descriptions", ":", "[", "null", "]", "}">> }
StoredValues == {Null(<<>>)} \cup {Text(t) : t \in StoredTexts}
Columns == {"extra_info", "suggested_actions"}

\* scanRows is about to decode one column of a row.
InitDecode ==
    /\ InitBucket
    /\ TestBucket
    /\ input \in [column : Columns, data : StoredValues]
    /\ output = NoValue

\* unmarshalIfValid(data, &v) as scanRows calls it for the column, with v
\* freshly declared (nil).
Decode ==
    /\ output = NoValue
    /\ output' = IF input.column = "extra_info"
                 THEN unmarshalIfValid(input.data, UnmarshalMap(input.data.String),
                                       NilMap)
                 ELSE unmarshalIfValid(input.data,
                                       UnmarshalSuggestedActions(input.data.String),
                                       NilActions)
    /\ UNCHANGED <<input, bucketVars, storeVars, handleVars, collabVars>>

\* The scan goes on to another column value.
NextValue ==
    /\ output # NoValue
    /\ input' \in [column : Columns, data : StoredValues]
    /\ output' = NoValue
    /\ UNCHANGED <<bucketVars, storeVars, handleVars, collabVars>>

SpecDecode == InitDecode /\ [][Decode \/ NextValue]_vars

\* ------------------------------------------------------------ writing and reading back

\* The events of the round trips: absent and empty fields, an empty and a
\* filled map, special and non-ASCII characters, times off the second and
\* before the epoch.
MaxStored == 2
RoundTripEvents ==
    { BaseEvent,
      AtTime(TimeOf(1, 500000000)),
      AtTime(TimeOf(-2, 0)),
      [BaseEvent EXCEPT !.Name = "", !.Type = ""],
      [BaseEvent EXCEPT !.Name = "test;source"],
      [BaseEvent EXCEPT !.Name = Unicode],
      WithExtraInfo(MapOf(<<>>)),
      WithExtraInfo(MapOf([k \in {"a"} |-> "b"])),
      WithExtraInfo(MapOf([k \in {"a"} |-> ""])),
      WithExtraInfo(MapOf([k \in {"a"} |-> SpecialChars])),
      WithExtraInfo(MapOf([k \in {"a"} |-> Unicode])),
      WithExtraInfo(MapOf([k \in {"a"} |-> InvalidUTF8])),
      WithPayload("m1", NilActions),
      WithPayload("m1", Actions1),
      WithPayload("", Actions2),
      WithPayload("", ActionsOf(<<>>, <<>>)),
      WithPayload(SpecialChars, ActionsOf(<<SpecialChars>>, <<>>)),
      WithPayload(Unicode, ActionsOf(<<Unicode>>, <<>>)) }

InitRoundTrip == InitBucket /\ TestBucket /\ NoStudy

\* bucket.Insert(ctx, ev) with a live context.
StoreEvent(ev) ==
    /\ Len(rows) < MaxStored
    /\ rows' = insertEvent("live", rows, ev).tbl
    /\ hist' = Append(hist, ev)
    /\ input' = ev
    /\ output' = NoValue
    /\ UNCHANGED <<last, pc, wev, storeVars, handleVars, collabVars>>

\* The row just written is looked at, decoded as scanRows decodes it, and
\* bucket.Find(ctx, ev) is called with the event just inserted.
ReadBack ==
    /\ input # NoValue
    /\ output = NoValue
    /\ output' = [row |-> rows[Len(rows)],
                  scanned |-> scanRows(rows[Len(rows)]),
                  find |-> findEvent("live", rows, input)]
    /\ UNCHANGED <<input, bucketVars, storeVars, handleVars, collabVars>>

NextRoundTrip ==
    \/ \E ev \in RoundTripEvents : StoreEvent(ev)
    \/ ReadBack

SpecRoundTrip == InitRoundTrip /\ [][NextRoundTrip]_vars

\* ------------------------------------------------------------ rows written past Insert

\* The payload texts a statement other than insertEvent leaves in a column.
InvalidJSON == <<"{", "invalid_json">>
RawPayloads ==
    { [extra_info |-> Text(InvalidJSON), suggested_actions |-> Null(<<>>)],
      [extra_info |-> Null(<<>>), suggested_actions |-> Text(InvalidJSON)],
      [extra_info |-> Text(<<"[", "1", "]">>), suggested_actions |-> Null(<<>>)],
      [extra_info |-> Text(MarshalSuggestedActions(Actions1)),
       suggested_actions |-> Null(<<>>)],
      [extra_info |-> Text(<<"null">>), suggested_actions |-> Text(<<>>)] }
RawTimestamps == {0, 2}

\* The events Insert adds next to them.
ValidEvents == {AtTime(TimeOf(-2, 0)), WithPayload("m1", Actions1)}

\* dbRW.ExecContext(ctx, "INSERT INTO <table> (timestamp, name, type,
\* extra_info, suggested_actions) VALUES (?, ?, ?, ?, ?)", ...)
RawInsert(timestamp, payload) ==
    /\ Len(rows) < MaxRows
    /\ rows' = Append(rows, [timestamp |-> timestamp,
                             name |-> BaseEvent.Name,
                             type |-> BaseEvent.Type,
                             message |-> Null(""),
                             extra_info |-> payload.extra_info,
                             suggested_actions |-> payload.suggested_actions])
    /\ last' = [NoCall EXCEPT !.op = "Exec", !.before = rows]
    /\ UNCHANGED <<hist, pc, wev>>

NextRaw ==
    \/ \E ev \in ValidEvents :
            Insert("live", ev) /\ UNCHANGED <<storeVars, handleVars, collabVars, pureVars>>
    \/ \E timestamp \in RawTimestamps, payload \in RawPayloads :
            RawInsert(timestamp, payload)
            /\ UNCHANGED <<storeVars, handleVars, collabVars, pureVars>>
    \/ \E since \in Sinces :
            Get("live", since) /\ UNCHANGED <<storeVars, handleVars, collabVars, pureVars>>

SpecRaw == Init /\ [][NextRaw]_vars

\* ------------------------------------------------------------ timestamps at full width

\* An int64 in two's complement, as four 16-bit limbs, the most significant
\* first.
Limb == 2 ^ 16

\* a + b on int64 (wraps around).
Add64(a, b) ==
    LET s4 == a[4] + b[4]
        s3 == a[3] + b[3] + (s4 \div Limb)
        s2 == a[2] + b[2] + (s3 \div Limb)
        s1 == a[1] + b[1] + (s2 \div Limb)
    IN  <<s1 % Limb, s2 % Limb, s3 % Limb, s4 % Limb>>

\* The most significant limb with its sign.
Top(a) == IF a[1] >= Limb \div 2 THEN a[1] - Limb ELSE a[1]

\* A comparison that takes the bit patterns for unsigned numbers.
Less64_Unsigned(a, b) ==
    \E i \in 1..4 : a[i] < b[i] /\ \A j \in 1..(i - 1) : a[j] = b[j]

\* a < b on int64, as SQLite compares two INTEGER values.
Less64(a, b) ==
    \/ Top(a) < Top(b)
    \/ /\ Top(a) = Top(b)
       /\ \E i \in 2..4 : a[i] < b[i] /\ \A j \in 2..(i - 1) : a[j] = b[j]

\* Package time counts seconds from year 1: unixToInternal is
\* 62135596800, internalToUnix its negation.
unixToInternal == <<0, 14, 30609, 63232>>
internalToUnix == <<65535, 65521, 34926, 2304>>

\* time.Unix(sec, 0), and t.Unix().
UnixTime(sec) == [ext |-> Add64(sec, unixToInternal)]
Unix64(t) == Add64(t.ext, internalToUnix)

\* The timestamps of the boundary test and the limits of int64, in ascending
\* order: -2^63, -(2^62 + 100), -2^31, -1, 0, 1800000000, 2^32, 2^62,
\* 2^63 - 1.
Timestamps64 ==
    << <<32768, 0, 0, 0>>,
       <<49151, 65535, 65535, 65436>>,
       <<65535, 65535, 32768, 0>>,
       <<65535, 65535, 65535, 65535>>,
       <<0, 0, 0, 0>>,
       <<0, 0, 27465, 53760>>,
       <<0, 1, 0, 0>>,
       <<16384, 0, 0, 0>>,
       <<32767, 65535, 65535, 65535>> >>

NoTimestampCall ==
    [op |-> "none", column |-> <<0, 0, 0, 0>>, matched |-> FALSE,
     found |-> <<0, 0, 0, 0>>, selected |-> FALSE, deleted |-> FALSE]

\* An event with Time: time.Unix(ts, 0) is about to be inserted; bound is
\* the since of the Get and the cutoff of the Purge that follow.
InitTimestamp ==
    /\ InitBucket
    /\ TestBucket
    /\ \E i, j \in DOMAIN Timestamps64 :
            input = [ts |-> Timestamps64[i], bound |-> Timestamps64[j]]
    /\ output = NoTimestampCall

\* insertEvent binds ev.Time.Unix() to the timestamp column.
InsertAt ==
    /\ output.op = "none"
    /\ output' = [output EXCEPT !.op = "Insert",
                                !.column = Unix64(UnixTime(input.ts))]
    /\ UNCHANGED <<input, bucketVars, storeVars, handleVars, collabVars>>

\* findEvent selects WHERE timestamp = ev.Time.Unix() and scanRows sets
\* event.Time to time.Unix(timestamp, 0); the caller reads found.Time.Unix().
FindAt ==
    /\ output.op = "Insert"
    /\ LET matched == output.column = Unix64(UnixTime(input.ts))
       IN  output' = [output EXCEPT
                         !.op = "Find",
                         !.matched = matched,
                         !.found = IF matched
                                   THEN Unix64(UnixTime(output.column))
                                   ELSE @]
    /\ UNCHANGED <<input, bucketVars, storeVars, handleVars, collabVars>>

\* getEvents selects WHERE timestamp > since.UTC().Unix().
GetSince ==
    /\ output.op = "Find"
    /\ output' = [output EXCEPT
                     !.op = "Get",
                     !.selected = Less64(Unix64(UnixTime(input.bound)),
                                         output.column)]
    /\ UNCHANGED <<input, bucketVars, storeVars, handleVars, collabVars>>

\* purgeEvents deletes WHERE timestamp < beforeTimestamp.
PurgeBefore ==
    /\ output.op = "Get"
    /\ output' = [output EXCEPT
                     !.op = "Purge",
                     !.deleted = Less64(output.column, input.bound)]
    /\ UNCHANGED <<input, bucketVars, storeVars, handleVars, collabVars>>

NextTimestamp == InsertAt \/ FindAt \/ GetSince \/ PurgeBefore

SpecTimestamp == InitTimestamp /\ [][NextTimestamp]_vars

\* ------------------------------------------------------------ one inserter, readers beside it

\* The inserting goroutine adds EventCount events one second apart; the
\* reading goroutines call Get with these sinces and Find with these events.
EventCount == 3
ConcurrentEvent(i) ==
    [BaseEvent EXCEPT !.Name = "concurrent", !.Time = TimeOf(i, 0)]
ConcurrentSinces == {TimeOf(0, 0), TimeOf(1, 0)}

\* The inserter's next bucket.Insert(ctx, event): one INSERT, committed
\* when the call returns.
InserterInsert ==
    /\ Len(hist) < EventCount
    /\ LET r == insertEvent("live", rows, ConcurrentEvent(Len(hist) + 1))
       IN  /\ rows' = r.tbl
           /\ hist' = IF r.err = NoError
                      THEN Append(hist, ConcurrentEvent(Len(hist) + 1))
                      ELSE hist
    /\ UNCHANGED <<last, pc, wev, input, output, storeVars, handleVars, collabVars>>

\* A reader's Get or Find starts its SELECT on the read-only handle: the
\* statement reads the rows committed by now, whatever is inserted while
\* it runs.
ReaderBegins(op, since, ev) ==
    /\ input = NoValue
    /\ input' = [op |-> op, since |-> since, ev |-> ev, snapshot |-> rows,
                 n |-> Len(hist)]
    /\ UNCHANGED <<output, bucketVars, storeVars, handleVars, collabVars>>

\* The reader's call returns what its statement read.
ReaderReturns ==
    /\ input # NoValue
    /\ last' = IF input.op = "Get"
               THEN LET r == getEvents("live", input.snapshot, input.since)
                    IN  [NoCall EXCEPT !.op = "Get", !.since = input.since,
                                       !.before = input.snapshot,
                                       !.events = r.events, !.n = input.n,
                                       !.err = r.err]
               ELSE LET r == findEvent("live", input.snapshot, input.ev)
                    IN  [NoCall EXCEPT !.op = "Find", !.ev = input.ev,
                                       !.before = input.snapshot,
                                       !.found = r.found, !.n = input.n,
                                       !.err = r.err]
    /\ input' = NoValue
    /\ UNCHANGED <<rows, hist, pc, wev, output, storeVars, handleVars, collabVars>>

NextConcurrent ==
    \/ InserterInsert
    \/ \E since \in ConcurrentSinces : ReaderBegins("Get", since, ZeroEvent)
    \/ \E i \in 1..EventCount :
            ReaderBegins("Find", TimeOf(0, 0), ConcurrentEvent(i))
    \/ ReaderReturns

SpecConcurrent == Init /\ [][NextConcurrent]_vars

\* ------------------------------------------------------------ comparing events

\* The ExtraInfo maps compared: the nil map and every map from some of the
\* keys "a" and "c" to the values "b" and "d".
CompareKeys == {"a", "c"}
CompareValues == {"b", "d"}
CompareMaps ==
    {NilMap} \cup {MapOf(m) : m \in UNION {[K -> CompareValues] : K \in SUBSET CompareKeys}}

\* findEvent holds a scanned row and the probe.
InitCompare ==
    /\ InitBucket
    /\ TestBucket
    /\ input \in [eventA : {WithExtraInfo(x) : x \in CompareMaps},
                   eventB : {WithExtraInfo(x) : x \in CompareMaps}]
    /\ output = NoValue

\* compareEvent(eventA, eventB), and the same call with the arguments
\* exchanged.
Compare ==
    /\ output = NoValue
    /\ output' = [ab |-> compareEvent(input.eventA, input.eventB),
                  ba |-> compareEvent(input.eventB, input.eventA)]
    /\ UNCHANGED <<input, bucketVars, storeVars, handleVars, collabVars>>

\* The scan goes on to another pair.
NextPair ==
    /\ output # NoValue
    /\ input' \in [eventA : {WithExtraInfo(x) : x \in CompareMaps},
                    eventB : {WithExtraInfo(x) : x \in CompareMaps}]
    /\ output' = NoValue
    /\ UNCHANGED <<bucketVars, storeVars, handleVars, collabVars>>

SpecCompare == InitCompare /\ [][Compare \/ NextPair]_vars

\* A statement of createTable fails in the engine (I/O error, the 10 s
\* deadline of the creation context): createTable rolls back and returns.
ExecFails(c) ==
    /\ \E k \in 1..Len(Statements) : calls[c].pc = Statements[k]
    /\ Failed(c, ErrEngine)

\* tx.Commit fails (I/O error, the expired creation context, a COMMIT that
\* cannot get the database while it is locked): the transaction is over and
\* rolled back, createTable returns the error and newTable returns it
\* without a handle. A transaction that created nothing has nothing to write
\* and does not wait for the lock.
CommitFails(c, err) ==
    /\ calls[c].pc = "Commit"
    /\ err = ErrBusy => calls[c].pending # <<>>
    /\ Failed(c, err)

\* The process dies while creators are inside createTable. Their
\* transactions are never committed; the next run opens the same database
\* with a new Store.
Crash ==
    /\ InFlight # {}
    /\ catalog' = Rollback(catalog, IF wlock = "none" THEN <<>>
                                    ELSE calls[wlock].pending)
    /\ dRetention' = configured
    /\ wlock' = "none"
    /\ calls' = [c \in Creators |-> NoCreate]
    /\ handles' = <<>>
    /\ UNCHANGED configured

\* Creation with everything that can go wrong in it.
NextCreate ==
    \/ \E c \in Creators, name \in CreateNames, disablePurge \in BOOLEAN :
            CallBucket(c, name, disablePurge)
                /\ UNCHANGED <<bucketVars, handleVars, collabVars, pureVars>>
    \/ \E c \in Creators : EnterNewTable(c) /\ UNCHANGED <<bucketVars, handleVars, collabVars, pureVars>>
    \/ \E c \in Creators : Exec(c) /\ UNCHANGED <<bucketVars, handleVars, collabVars, pureVars>>
    \/ \E c \in Creators : ExecBusy(c) /\ UNCHANGED <<bucketVars, handleVars, collabVars, pureVars>>
    \/ \E c \in Creators : ExecFails(c) /\ UNCHANGED <<bucketVars, handleVars, collabVars, pureVars>>
    \/ \E c \in Creators : Commit(c) /\ UNCHANGED <<bucketVars, handleVars, collabVars, pureVars>>
    \/ \E c \in Creators, err \in {ErrEngine, ErrBusy} :
            CommitFails(c, err)
                /\ UNCHANGED <<bucketVars, handleVars, collabVars, pureVars>>
    \/ Crash /\ UNCHANGED <<bucketVars, handleVars, collabVars, pureVars>>

SpecCreate == InitStore /\ [][NextCreate]_vars

\* ------------------------------------------------------------ a handle's life

\* What one call on the Store leaves: the Store's retention field and the
\* arguments newTable gets.
Created(d, way) ==
    IF way = "LoadBucketWithNoPurge"
    THEN LoadBucketWithNoPurge(d)
    ELSE LET b == Bucket(d, way = "BucketNoPurge")
         IN  [d |-> b.d, retention |-> b.d, purgeInterval |-> b.purgeInterval]

\* The retentions of the Store whose handle is studied: none, the second
\* that starts no purge loop, and one that starts it.
HandleRetentions == {0, Second, 2 * Second}

\* A Store of any of these retentions, and the handle of its first bucket,
\* made in any of the three ways.
InitHandle ==
    /\ InitBucket
    /\ NoStudy
    /\ \E retention \in HandleRetentions, way \in Ways :
          LET r == Created(retention, way)
              t == newTable(defaultTableName(<<"a">>), r.retention, r.purgeInterval)
          IN  StoreAfter(retention, r.d, t, way) /\ Holding(t)

\* The handle's statements run on its table if the schema has it.
HasTable == Exists(catalog, handle.table)

\* A handle whose calls run under its own rootCtx.
CallCtx_Root(c, canceled) == IF canceled THEN "canceled" ELSE c

\* The context a call on the handle runs its statement under: the caller's,
\* whatever became of the handle's rootCtx.
CallCtx(c, canceled) == c

\* table.Insert(ctx, ev) through the handle.
HandleInsert(ev) ==
    /\ Len(rows) < MaxRows
    /\ LET r == IF HasTable THEN insertEvent(CallCtx("live", closed), rows, ev)
                ELSE [tbl |-> rows, err |-> ErrNoTable]
       IN  /\ rows' = r.tbl
           /\ hist' = IF r.err = NoError THEN Append(hist, ev) ELSE hist
           /\ last' = [NoCall EXCEPT !.op = "Insert", !.ev = ev, !.err = r.err]
    /\ UNCHANGED <<pc, wev, storeVars, handleVars, collabVars, pureVars>>

\* table.Get(ctx, since) through the handle.
HandleGet(since) ==
    /\ LET r == IF HasTable THEN getEvents(CallCtx("live", closed), rows, since)
                ELSE [events |-> NilEvents, err |-> ErrNoTable]
       IN  last' = [NoCall EXCEPT !.op = "Get", !.since = since,
                                  !.events = r.events, !.err = r.err]
    /\ UNCHANGED <<rows, hist, pc, wev, storeVars, handleVars, collabVars, pureVars>>

\* table.Find(ctx, ev) through the handle.
HandleFind(ev) ==
    /\ LET r == IF HasTable THEN findEvent(CallCtx("live", closed), rows, ev)
                ELSE [found |-> NilEvent, err |-> ErrNoTable]
       IN  last' = [NoCall EXCEPT !.op = "Find", !.ev = ev,
                                  !.found = r.found, !.err = r.err]
    /\ UNCHANGED <<rows, hist, pc, wev, storeVars, handleVars, collabVars, pureVars>>

\* table.Latest(ctx) through the handle.
HandleLatest ==
    /\ LET r == IF HasTable THEN lastEvent(CallCtx("live", closed), rows)
                ELSE [found |-> NilEvent, err |-> ErrNoTable]
       IN  last' = [NoCall EXCEPT !.op = "Latest", !.found = r.found,
                                  !.err = r.err]
    /\ UNCHANGED <<rows, hist, pc, wev, storeVars, handleVars, collabVars, pureVars>>

\* A DELETE of the rows below the cutoff, run on the handle's table.
PurgeOn(c, beforeTimestamp) ==
    IF HasTable THEN purgeEvents(c, rows, beforeTimestamp)
    ELSE [tbl |-> rows, n |-> 0, err |-> ErrNoTable]

\* The history of the rows a purge with this cutoff leaves.
HistAfter(r, beforeTimestamp) ==
    IF r.err = NoError /\ HasTable
    THEN SelectSeq(hist, LAMBDA e : ~(beforeTimestamp > Unix(e.Time)))
    ELSE hist

\* table.Purge(ctx, beforeTimestamp) called by the bucket's owner.
HandlePurge(beforeTimestamp) ==
    /\ LET r == PurgeOn(CallCtx("live", closed), beforeTimestamp)
       IN  /\ rows' = r.tbl
           /\ hist' = HistAfter(r, beforeTimestamp)
           /\ catalog' = SchemaAfterPurge(catalog, handle.table)
           /\ last' = [NoCall EXCEPT !.op = "Purge", !.cutoff = beforeTimestamp,
                                     !.n = r.n, !.err = r.err]
    /\ UNCHANGED <<pc, wev, dRetention, configured, wlock, calls, handles,
                   handleVars, collabVars, pureVars>>

\* table.Close(): cancels rootCtx. The call record counts the Close calls
\* made in a row.
Close ==
    /\ last.op = "Close" => last.n < MaxCloses
    /\ closed' = rootCancel(closed)
    /\ last' = [NoCall EXCEPT !.op = "Close",
                              !.n = IF last.op = "Close" THEN last.n + 1 ELSE 1]
    /\ UNCHANGED <<rows, hist, pc, wev, storeVars, pureVars, collabVars, handle, loop, now, logged, purgeNow>>

\* Time passes.
Tick ==
    /\ now.sec < MaxNow
    /\ now' = Add(now, HalfSecond)
    /\ UNCHANGED <<bucketVars, storeVars, pureVars, collabVars, handle, closed, loop, logged, purgeNow>>

\* runPurge's select takes "case <-time.After(t.purgeInterval)" and the loop
\* reads the clock (now := time.Now().UTC()); its Purge call comes later, as
\* a step of its own. When the context is canceled as well, select picks
\* either case.
TimerFires ==
    /\ loop = "select"
    /\ loop' = "purge"
    /\ purgeNow' = now
    /\ UNCHANGED <<bucketVars, storeVars, pureVars, collabVars, handle, closed, now, logged>>

\* runPurge's select takes "case <-t.rootCtx.Done()" and the goroutine returns.
DoneFires ==
    /\ loop = "select"
    /\ SelectDone(closed)
    /\ loop' = "exited"
    /\ UNCHANGED <<bucketVars, storeVars, pureVars, collabVars, handle, closed, now, logged, purgeNow>>

\* runPurge calls t.Purge(t.rootCtx, cutoff) with the cutoff of the clock it
\* read, whatever time has passed and whatever was inserted since; the
\* statement runs unless rootCtx is canceled. The outcome is logged, and the
\* local now is not read again.
PurgerPurges ==
    /\ loop = "purge"
    /\ LET cutoff == PurgeCutoff(purgeNow, handle.retention)
           r == PurgeOn(IF closed THEN "canceled" ELSE "live", cutoff)
       IN  /\ rows' = r.tbl
           /\ hist' = HistAfter(r, cutoff)
           /\ catalog' = IF r.err = NoError
                         THEN SchemaAfterPurge(catalog, handle.table)
                         ELSE catalog
           /\ logged' = [purged |-> r.n, err |-> r.err]
           /\ loop' = AfterPurge(r.err)
    /\ UNCHANGED <<pureVars, collabVars, last, pc, wev, dRetention, configured, wlock, calls, handles,
                   handle, closed, now>>
    /\ purgeNow' = TimeOf(0, 0)

\* The same call when the engine fails the statement.
PurgerFails ==
    /\ loop = "purge"
    /\ logged' = [purged |-> 0, err |-> ErrEngine]
    /\ loop' = AfterPurge(ErrEngine)
    /\ purgeNow' = TimeOf(0, 0)
    /\ UNCHANGED <<bucketVars, storeVars, pureVars, collabVars, handle, closed, now>>

\* The owner uses the handle and closes it while its purge loop runs.
NextHandle ==
    \/ \E ev \in ClockEvents : HandleInsert(ev)
    \/ HandleGet(TimeOf(-3, 0))
    \/ \E t \in {0, 2} : HandlePurge(t)
    \/ Close
    \/ Tick
    \/ TimerFires
    \/ DoneFires
    \/ PurgerPurges
    \/ PurgerFails

SpecHandle == InitHandle /\ [][NextHandle]_vars

\* The same with every call of the Bucket interface made through the handle.
NextForeground ==
    \/ \E ev \in ClockEvents : HandleInsert(ev)
    \/ \E ev \in ClockEvents : HandleFind(ev)
    \/ HandleGet(TimeOf(-3, 0))
    \/ HandleLatest
    \/ \E t \in {0, 2} : HandlePurge(t)
    \/ Close
    \/ Tick
    \/ TimerFires
    \/ DoneFires
    \/ PurgerPurges
    \/ PurgerFails

SpecForeground == InitHandle /\ [][NextForeground]_vars

\* The purge goroutine is scheduled, its timer fires, and a select with the
\* Done case ready over and over takes it in the end.
FairLoop ==
    /\ SpecHandle
    /\ WF_vars(TimerFires)
    /\ SF_vars(DoneFires)
    /\ WF_vars(PurgerPurges \/ PurgerFails)

\* The owner inserts, reads and closes while the purge loop runs, and
\* leaves the purging to the loop.
NextPurge ==
    \/ \E ev \in ClockEvents : HandleInsert(ev)
    \/ HandleGet(TimeOf(-3, 0))
    \/ Close
    \/ Tick
    \/ TimerFires
    \/ DoneFires
    \/ PurgerPurges
    \/ PurgerFails

\* The handle of a bucket that has a purge loop.
InitPurge == InitHandle /\ handle.purger

SpecPurge == InitPurge /\ [][NextPurge]_vars

\* The purge goroutine is scheduled as in FairLoop; moreover time passes
\* and the engine does not fail every purge for ever.
FairPurge ==
    /\ SpecPurge
    /\ WF_vars(TimerFires)
    /\ SF_vars(DoneFires)
    /\ WF_vars(PurgerPurges \/ PurgerFails)
    /\ WF_vars(Tick)
    /\ SF_vars(PurgerPurges)

\* ------------------------------------------------------------ the purge interval

\* The retentions a Store is made with: every quarter of a second from
\* minus one second to MaxFifths times five seconds, the same plus one
\* millisecond, and three days.
MaxFifths == 2
StoreRetentions ==
    {k * (Second \div 4) + j : k \in (-4)..(20 * MaxFifths), j \in {0, 1}}
        \cup {3 * 24 * 3600 * Second}

\* A Store with a retention, and a caller of Bucket with or without
\* WithDisablePurge.
InitInterval ==
    /\ InitBucket
    /\ TestBucket
    /\ input \in [retention : StoreRetentions, disablePurge : BOOLEAN]
    /\ output = NoValue

\* d.Bucket(name, opts...) up to its call of newTable.
DeriveInterval ==
    /\ output = NoValue
    /\ output' = Bucket(input.retention, input.disablePurge)
    /\ UNCHANGED <<input, bucketVars, storeVars, handleVars, collabVars>>

\* Another Store, another caller.
NextRetention ==
    /\ output # NoValue
    /\ input' \in [retention : StoreRetentions, disablePurge : BOOLEAN]
    /\ output' = NoValue
    /\ UNCHANGED <<bucketVars, storeVars, handleVars, collabVars>>

SpecInterval == InitInterval /\ [][DeriveInterval \/ NextRetention]_vars

\* ------------------------------------------------------------ the Syncer

\* The calls counted per mock (the mocks count in an int), and the samples a
\* MetricsStore holds in the model.
MaxCalls == 2
MaxRecords == 4

\* A pkgmetrics.Metric sample, and time.Time.UnixMilli.
Metric(ms, name) == [UnixMilliseconds |-> ms, Name |-> name]
UnixMilli(t) == t.sec * 1000 + (t.nsec \div 1000000)

ErrScrape == "scrape error"
ErrStore == "store error"
ErrPurge == "purge error"

\* newMockScraper(metrics, err) and newMockStore(recordErr, purgeErr, nil).
newMockScraper(metrics, err) == [metrics |-> metrics, err |-> err, scrapes |-> 0]
newMockStore(recordErr, purgeErr) ==
    [records |-> <<>>, recordErr |-> recordErr, purgeErr |-> purgeErr,
     purgeCount |-> 0, purged |-> 0, lastPurgeTime |-> TimeOf(0, 0)]

\* A counter of the mocks, kept within MaxCalls.
Count(n) == IF n < MaxCalls THEN n + 1 ELSE n

\* mockScraper.Scrape: counts the call and returns its metrics and its error.
Scrape(m) ==
    [scraper |-> [m EXCEPT !.scrapes = Count(@)], metrics |-> m.metrics,
     err |-> m.err]

\* A Record that appends before it fails.
Record_AppendsThenFails(m, ms) ==
    [store |-> [m EXCEPT !.records = @ \o ms], err |-> m.recordErr]

\* mockStore.Record: fails with recordErr, or appends the metrics.
Record(m, ms) ==
    IF m.recordErr # NoError THEN [store |-> m, err |-> m.recordErr]
    ELSE [store |-> [m EXCEPT !.records = @ \o ms], err |-> NoError]

\* mockStore.Purge: counts the call, notes the cutoff, and fails with
\* purgeErr or drops the samples before the cutoff.
MetricsPurge(m, before) ==
    LET called == [m EXCEPT !.purgeCount = Count(@), !.lastPurgeTime = before]
        remain == SelectSeq(m.records,
                            LAMBDA x : x.UnixMilliseconds >= UnixMilli(before))
    IN  IF m.purgeErr # NoError
        THEN [store |-> called, n |-> 0, err |-> m.purgeErr]
        ELSE [store |-> [called EXCEPT !.records = remain,
                                       !.purged = Len(m.records) - Len(remain)],
              n |-> Len(m.records) - Len(remain), err |-> NoError]

\* sync() that records what it has although the scrape failed.
AfterScrape_RecordsAnyway(err) == "record"

\* sync() after Scrape returned: on an error it returns, else it goes on to
\* Record.
AfterScrape(err) == IF err # NoError THEN "return" ELSE "record"

\* A cutoff that forgets retainDuration.
SyncerCutoff_Now(t, retainDuration) == t

\* The purge loop's cutoff: now minus retainDuration.
SyncerCutoff(t, retainDuration) == Add(t, -retainDuration)

\* A loop that ends at the first error of its iteration.
AfterIteration_StopsOnError(err) == IF err # NoError THEN "exited" ELSE "select"

\* A loop after an iteration: the error is logged and the loop waits for
\* its next interval.
AfterIteration(err) == "select"

\* A select that never takes the Done case.
SyncerDone_Never(canceled) == FALSE

\* The Done case of a loop's select: ready once Stop canceled the context.
SyncerDone(canceled) == canceled

\* NewSyncer(ctx, scraper, store, scrapeInterval, purgeInterval,
\* retainDuration): nothing runs yet.
NewSyncer(retainDuration) ==
    [retainDuration |-> retainDuration, canceled |-> FALSE, started |-> FALSE,
     scrapeLoop |-> "none", purgeLoop |-> "none", sync |-> "none",
     scraped |-> <<>>, err |-> NoError,
     calls |-> [Scrape |-> 0, Record |-> 0], before |-> <<>>]

\* The batches a Scraper is made with: none, the two samples of the sync
\* test taken at time 0, and one sample of time 0 with one of a later time.
Batches ==
    { <<>>,
      <<Metric(0, "metric1"), Metric(0, "metric2")>>,
      <<Metric(0, "metric1"), Metric(2 * Second, "metric2")>> }

\* A Scraper and a MetricsStore, each failing or not, and a Syncer over them.
InitSyncer ==
    /\ EmptyBucket
    /\ NoStudy
    /\ TestBucket
    /\ component = NoComponent
    /\ \E metrics \in Batches, err \in {NoError, ErrScrape} :
            scraper = newMockScraper(metrics, err)
    /\ \E recordErr \in {NoError, ErrStore}, purgeErr \in {NoError, ErrPurge} :
            mstore = newMockStore(recordErr, purgeErr)
    /\ syncer = NewSyncer(Second)

\* What the Syncer's steps leave alone.
besideSyncer ==
    <<bucketVars, storeVars, pureVars, handle, closed, loop, logged, purgeNow,
      component>>

\* The store is followed up to MaxRecords samples: a sync() begins when the
\* store has room for what it would record.
HasRoom ==
    \/ scraper.err # NoError
    \/ mstore.recordErr # NoError
    \/ Len(mstore.records) + Len(scraper.metrics) <= MaxRecords

\* s.sync() begins, called directly or by the scrape loop.
BeginSync(s) ==
    [s EXCEPT !.sync = "scrape", !.scraped = <<>>,
              !.calls = [Scrape |-> 0, Record |-> 0],
              !.before = mstore.records]

\* A caller calls s.sync() on a Syncer that was not started.
CallSync ==
    /\ ~syncer.started
    /\ syncer.sync \in {"none", "returned"}
    /\ HasRoom
    /\ syncer' = BeginSync(syncer)
    /\ UNCHANGED <<scraper, mstore, now, besideSyncer>>

\* What sync() leaves when it returns err: to its caller, or to the scrape
\* loop, which logs the error and goes round.
Returned2(s, err) ==
    IF s.started
    THEN [s EXCEPT !.sync = "none", !.err = err, !.scraped = <<>>,
                   !.calls = [Scrape |-> 0, Record |-> 0], !.before = <<>>,
                   !.scrapeLoop = AfterIteration(err)]
    ELSE [s EXCEPT !.sync = "returned", !.err = err]

\* sync(): s.scraper.Scrape(s.ctx).
SyncScrapes ==
    /\ syncer.sync = "scrape"
    /\ LET r == Scrape(scraper)
           s == [syncer EXCEPT !.calls.Scrape = @ + 1]
       IN  /\ scraper' = r.scraper
           /\ syncer' = IF AfterScrape(r.err) = "return"
                        THEN Returned2(s, r.err)
                        ELSE [s EXCEPT !.sync = "record", !.scraped = r.metrics]
    /\ UNCHANGED <<mstore, now, besideSyncer>>

\* sync(): s.store.Record(s.ctx, ms...) with all the scraped metrics, and
\* the return of its error.
SyncRecords ==
    /\ syncer.sync = "record"
    /\ LET r == Record(mstore, syncer.scraped)
       IN  /\ mstore' = r.store
           /\ syncer' = Returned2([syncer EXCEPT !.calls.Record = @ + 1], r.err)
    /\ UNCHANGED <<scraper, now, besideSyncer>>

\* s.Start(): the scrape loop and the purge loop begin, each at its select.
Start ==
    /\ ~syncer.started
    /\ syncer.sync = "none"
    /\ syncer' = [syncer EXCEPT !.started = TRUE, !.scrapeLoop = "select",
                                !.purgeLoop = "select"]
    /\ UNCHANGED <<scraper, mstore, now, besideSyncer>>

\* s.Stop(): cancels the Syncer's context.
Stop ==
    /\ syncer.started
    /\ ~syncer.canceled
    /\ syncer' = [syncer EXCEPT !.canceled = TRUE]
    /\ UNCHANGED <<scraper, mstore, now, besideSyncer>>

\* The scrape loop's interval is over: it calls s.sync().
ScrapeTimerFires ==
    /\ syncer.scrapeLoop = "select"
    /\ HasRoom
    /\ syncer' = [BeginSync(syncer) EXCEPT !.scrapeLoop = "sync"]
    /\ UNCHANGED <<scraper, mstore, now, besideSyncer>>

\* The scrape loop's select takes the Done case and the loop returns.
ScrapeLoopExits ==
    /\ syncer.scrapeLoop = "select"
    /\ SyncerDone(syncer.canceled)
    /\ syncer' = [syncer EXCEPT !.scrapeLoop = "exited"]
    /\ UNCHANGED <<scraper, mstore, now, besideSyncer>>

\* The purge loop's interval is over.
PurgeTimerFires ==
    /\ syncer.purgeLoop = "select"
    /\ syncer' = [syncer EXCEPT !.purgeLoop = "purge"]
    /\ UNCHANGED <<scraper, mstore, now, besideSyncer>>

\* The purge loop's select takes the Done case and the loop returns.
PurgeLoopExits ==
    /\ syncer.purgeLoop = "select"
    /\ SyncerDone(syncer.canceled)
    /\ syncer' = [syncer EXCEPT !.purgeLoop = "exited"]
    /\ UNCHANGED <<scraper, mstore, now, besideSyncer>>

\* The purge loop calls s.store.Purge(s.ctx, now - retainDuration), logs
\* the outcome and goes round.
SyncerPurges ==
    /\ syncer.purgeLoop = "purge"
    /\ LET r == MetricsPurge(mstore, SyncerCutoff(now, syncer.retainDuration))
       IN  /\ mstore' = r.store
           /\ syncer' = [syncer EXCEPT !.purgeLoop = AfterIteration(r.err)]
    /\ UNCHANGED <<scraper, now, besideSyncer>>

\* A second passes on the Syncer's clock.
SecondPasses ==
    /\ now.sec < MaxNow
    /\ now' = Add(now, Second)
    /\ UNCHANGED <<scraper, mstore, syncer, besideSyncer>>

\* sync() as its tests call it, on a Syncer that is never started.
NextSync == CallSync \/ SyncScrapes \/ SyncRecords

SpecSync == InitSyncer /\ [][NextSync]_vars

\* A Syncer that is started and stopped, while time passes.
NextSyncer ==
    \/ Start
    \/ Stop
    \/ SecondPasses
    \/ ScrapeTimerFires
    \/ ScrapeLoopExits
    \/ SyncScrapes
    \/ SyncRecords
    \/ PurgeTimerFires
    \/ PurgeLoopExits
    \/ SyncerPurges

SpecSyncer == InitSyncer /\ [][NextSyncer]_vars

\* Both goroutines are scheduled, their timers fire, their calls return, and
\* a select whose Done case is ready over and over takes it in the end.
FairSyncer ==
    /\ SpecSyncer
    /\ WF_vars(ScrapeTimerFires)
    /\ WF_vars(SyncScrapes)
    /\ WF_vars(SyncRecords)
    /\ SF_vars(ScrapeLoopExits)
    /\ WF_vars(PurgeTimerFires)
    /\ WF_vars(SyncerPurges)
    /\ SF_vars(PurgeLoopExits)

\* ------------------------------------------------------------ components

\* The components that keep their events in a bucket: cpu and infiniband
\* (which also feed it from a kmsg.Syncer) and hwslowdown.
Kinds == {"cpu", "infiniband", "hwslowdown"}
ErrKmsg == "kmsg error"

\* The rows a component's bucket holds at a time in a run.
MaxEvents == 2

\* The seconds a component's run lasts.
MaxSeconds == 3

\* A second passes on the component's clock.
ComponentSecondPasses ==
    /\ now.sec < MaxSeconds
    /\ now' = Add(now, Second)
    /\ UNCHANGED <<bucketVars, storeVars, pureVars, collabVars, handle, closed,
                   loop, logged, purgeNow>>

\* Whether New of the kind makes a kmsg.Syncer when it runs as root.
MakesKmsgSyncer(kind) == kind \in {"cpu", "infiniband"}

\* Whether Close of the kind calls c.eventBucket.Close().
ClosesBucket(kind) == kind \in {"cpu", "infiniband"}

\* No handle came out of the Store.
NilBucket == [isNil |-> TRUE]

\* A New that returns the component with the error.
NewReturns_KeepsComponent(bucketErr, kmsgErr) ==
    [c |-> "component", canceled |-> FALSE,
     err |-> IF bucketErr # NoError THEN bucketErr ELSE kmsgErr]

\* What New returns and whether it called ccancel(): after a failed
\* EventStore.Bucket or a failed kmsg.NewSyncer it cancels the context and
\* returns nil with the error.
NewReturns(bucketErr, kmsgErr) ==
    IF bucketErr # NoError THEN [c |-> "nil", canceled |-> TRUE, err |-> bucketErr]
    ELSE IF kmsgErr # NoError THEN [c |-> "nil", canceled |-> TRUE, err |-> kmsgErr]
    ELSE [c |-> "component", canceled |-> FALSE, err |-> NoError]

\* A Store over an empty database, with a retention that gives its buckets
\* a purge loop, and no component yet.
InitComponent ==
    /\ InitBucket
    /\ NoStudy
    /\ New(2 * Second)
    /\ handle = NilBucket
    /\ closed = FALSE
    /\ loop = "none"
    /\ now = TimeOf(0, 0)
    /\ logged = NoLog
    /\ purgeNow = TimeOf(0, 0)

\* What the component's steps leave alone.
besideComponent ==
    <<bucketVars, storeVars, pureVars, scraper, mstore, syncer, handle, loop,
      now, logged, purgeNow>>

\* The goroutine that runs New, and with it EventStore.Bucket, for the
\* component.
ComponentCreator == "c1"

\* New(gpudInstance) of a component of the kind, up to its test of the
\* EventStore: the component context and the struct. Without an EventStore
\* (or not on linux) New has nothing left but its return.
ComponentNew(kind, hasStore) ==
    /\ component = NoComponent
    /\ component' =
          [kind |-> kind, new |-> IF hasStore THEN "Bucket" ELSE "return",
           bucketErr |-> NoError, kmsgErr |-> NoError,
           returned |-> "none", err |-> NoError, ctxCanceled |-> FALSE,
           eventBucket |-> FALSE, kmsg |-> "nil", kmsgClosed |-> FALSE,
           kev |-> ZeroEvent, checkLoop |-> "none", ev |-> ZeroEvent,
           closing |-> "idle", closes |-> 0]
    /\ UNCHANGED <<besideComponent, closed>>

\* New calls gpudInstance.EventStore.Bucket(Name): Bucket up to its call of
\* newTable.
ComponentCallsBucket ==
    /\ component # NoComponent
    /\ component.new = "Bucket"
    /\ CallBucket(ComponentCreator, <<"a">>, FALSE)
    /\ component' = [component EXCEPT !.new = "inBucket"]
    /\ UNCHANGED <<bucketVars, handleVars, pureVars, scraper, mstore, syncer>>

\* tx.Commit of that call and the rest of newTable: the handle is the table
\* struct it built, and its purge goroutine runs from here on.
ComponentCommit ==
    /\ Commit(ComponentCreator)
    /\ handle' = handles'[Len(handles')].t
    /\ loop' = IF handle'.purger THEN "select" ELSE "none"
    /\ UNCHANGED <<bucketVars, pureVars, collabVars, closed, now, logged,
                   purgeNow>>

\* Bucket has returned: "c.eventBucket, err = ..." and New's test of err.
\* With an error New goes to its ccancel(); else the kinds that read the
\* kernel log go on to kmsg.NewSyncer.
ComponentGetsBucket ==
    /\ component # NoComponent
    /\ component.new = "inBucket"
    /\ calls[ComponentCreator].pc = "idle"
    /\ LET err == calls[ComponentCreator].err
       IN  component' =
              [component EXCEPT
                  !.bucketErr = err,
                  !.eventBucket = (err = NoError),
                  !.new = IF err # NoError THEN "fail"
                          ELSE IF MakesKmsgSyncer(component.kind) THEN "kmsg"
                          ELSE "return"]
    /\ UNCHANGED <<besideComponent, closed>>

\* "if os.Geteuid() == 0 { c.kmsgSyncer, err = kmsg.NewSyncer(cctx, Match,
\* c.eventBucket) }": a process that is not root makes no Syncer; for root
\* NewSyncer fails with kmsgErr, or returns the Syncer with its goroutine
\* reading the kernel log.
ComponentNewSyncer(root, kmsgErr) ==
    /\ component # NoComponent
    /\ component.new = "kmsg"
    /\ ~root => kmsgErr = NoError
    /\ component' =
          [component EXCEPT
              !.kmsgErr = kmsgErr,
              !.kmsg = IF root /\ kmsgErr = NoError THEN "select" ELSE "nil",
              !.new = IF kmsgErr # NoError THEN "fail" ELSE "return"]
    /\ UNCHANGED <<besideComponent, closed>>

\* The end of New: "ccancel(); return nil, err" after an error, "return c,
\* nil" else. Nothing else holds the component context when ccancel() runs.
ComponentNewReturns ==
    /\ component # NoComponent
    /\ component.new \in {"fail", "return"}
    /\ LET r == NewReturns(component.bucketErr, component.kmsgErr)
       IN  component' =
              [component EXCEPT !.new = "returned", !.returned = r.c,
                                !.err = r.err, !.ctxCanceled = r.canceled]
    /\ UNCHANGED <<besideComponent, closed>>

\* The event the Syncer makes of a kernel message that matches, stamped
\* with the message's time.
KmsgEvent(t) ==
    [Time |-> t, Name |-> "kmsg", Type |-> "Warning", Message |-> "m",
     ExtraInfo |-> NilMap, SuggestedActions |-> NilActions]

\* The context of the Syncer's calls on the bucket: derived from the
\* component context, canceled with it or by the Syncer's Close.
KmsgCtx ==
    IF component.ctxCanceled \/ component.kmsgClosed THEN "canceled" ELSE "live"

\* The Syncer's goroutine takes a kernel message that matches and builds
\* its event, while the table has room for it.
KmsgReceives ==
    /\ component # NoComponent
    /\ component.kmsg = "select"
    /\ Len(rows) < MaxEvents
    /\ component' = [component EXCEPT !.kmsg = "find", !.kev = KmsgEvent(now)]
    /\ UNCHANGED <<besideComponent, closed>>

\* The Syncer's lookup, Find before Insert: on an error or when the event
\* is there it waits for the next message.
KmsgFinds ==
    /\ component # NoComponent
    /\ component.kmsg = "find"
    /\ LET r == findEvent(KmsgCtx, rows, component.kev)
       IN  component' =
              IF r.err = NoError /\ r.found.isNil
              THEN [component EXCEPT !.kmsg = "insert"]
              ELSE [component EXCEPT !.kmsg = "select", !.kev = ZeroEvent]
    /\ UNCHANGED <<besideComponent, closed>>

\* The Syncer's Insert after the lookup found nothing.
KmsgInserts ==
    /\ component # NoComponent
    /\ component.kmsg = "insert"
    /\ LET r == insertEvent(KmsgCtx, rows, component.kev)
       IN  /\ rows' = r.tbl
           /\ hist' = IF r.err = NoError THEN Append(hist, component.kev) ELSE hist
    /\ component' = [component EXCEPT !.kmsg = "select", !.kev = ZeroEvent]
    /\ UNCHANGED <<last, pc, wev, storeVars, pureVars, scraper, mstore, syncer,
                   handleVars>>

\* The Syncer's goroutine finds its context done and returns.
KmsgDoneFires ==
    /\ component # NoComponent
    /\ component.kmsg = "select"
    /\ KmsgCtx = "canceled"
    /\ component' = [component EXCEPT !.kmsg = "exited"]
    /\ UNCHANGED <<besideComponent, closed>>

\* c.Start(): the check goroutine begins with a Check.
ComponentStart ==
    /\ component # NoComponent
    /\ component.returned = "component"
    /\ component.checkLoop = "none"
    /\ component' = [component EXCEPT !.checkLoop = "check"]
    /\ UNCHANGED <<besideComponent, closed>>

\* Whether Check of the kind persists what it finds wrong in the bucket:
\* infiniband its unhealthy ibstat state, hwslowdown its clock events.
PersistsEvents(kind) == kind \in {"infiniband", "hwslowdown"}

\* What a Check finds wrong: for infiniband the text of the threshold
\* check that failed, which is d.reason.
CheckReasons ==
    { "only 0 ports (>= 100 Gb/s), expect at least 1 ports",
      "only 1 ports (>= 100 Gb/s), expect at least 2 ports" }

\* The event such a Check builds at time t for what it found.
CheckEvent(kind, t, reason) ==
    [Time |-> t, Name |-> IF kind = "infiniband" THEN "ibstat" ELSE "hw_slowdown",
     Type |-> "Warning", Message |-> reason, ExtraInfo |-> NilMap,
     SuggestedActions |->
        IF kind = "infiniband"
        THEN ActionsOf(<<"potential infiniband switch/hardware issue needs immediate attention">>,
                       <<"HARDWARE_INSPECTION">>)
        ELSE NilActions]

\* The context of the component's calls on its bucket: c.ctx, or one derived
\* from it with a timeout.
ComponentCtx == IF component.ctxCanceled THEN "canceled" ELSE "live"

\* c.Check() up to its first call on the bucket: it reads the clock and
\* looks at the machine. With nothing to persist (a healthy machine, no
\* bucket, a kind that keeps no events of its own) it returns and the
\* goroutine waits in its select; else it has built its event. An event is
\* built while the table has room for it. The reason is "" on a healthy
\* machine.
ComponentChecks(reason) ==
    /\ component # NoComponent
    /\ component.checkLoop = "check"
    /\ LET persists == /\ reason # ""
                        /\ PersistsEvents(component.kind)
                        /\ component.eventBucket
       IN  /\ persists => Len(rows) < MaxEvents
           /\ component' =
                 IF persists
                 THEN [component EXCEPT !.checkLoop = "find",
                                        !.ev = CheckEvent(component.kind, now, reason)]
                 ELSE [component EXCEPT !.checkLoop = "select"]
    /\ UNCHANGED <<besideComponent, closed>>

\* Check's lookup, c.eventBucket.Find(cctx, ev): on an error or when the
\* event is there, Check returns.
ComponentFinds ==
    /\ component # NoComponent
    /\ component.checkLoop = "find"
    /\ LET r == findEvent(ComponentCtx, rows, component.ev)
       IN  component' =
              IF r.err = NoError /\ r.found.isNil
              THEN [component EXCEPT !.checkLoop = "insert"]
              ELSE [component EXCEPT !.checkLoop = "select", !.ev = ZeroEvent]
    /\ UNCHANGED <<besideComponent, closed>>

\* Check's c.eventBucket.Insert(cctx, ev) after the lookup found nothing,
\* and its return. (hwslowdown then reads the bucket with Get.)
ComponentInserts ==
    /\ component # NoComponent
    /\ component.checkLoop = "insert"
    /\ LET r == insertEvent(ComponentCtx, rows, component.ev)
       IN  /\ rows' = r.tbl
           /\ hist' = IF r.err = NoError THEN Append(hist, component.ev) ELSE hist
    /\ component' = [component EXCEPT !.checkLoop = "select", !.ev = ZeroEvent]
    /\ UNCHANGED <<last, pc, wev, storeVars, pureVars, scraper, mstore, syncer,
                   handleVars>>

\* The select takes the ticker.
ComponentTickerFires ==
    /\ component # NoComponent
    /\ component.checkLoop = "select"
    /\ component' = [component EXCEPT !.checkLoop = "check"]
    /\ UNCHANGED <<besideComponent, closed>>

\* The select takes "case <-c.ctx.Done()" and the goroutine returns.
ComponentDoneFires ==
    /\ component # NoComponent
    /\ component.checkLoop = "select"
    /\ component.ctxCanceled
    /\ component' = [component EXCEPT !.checkLoop = "exited"]
    /\ UNCHANGED <<besideComponent, closed>>

\* c.Close() up to c.cancel(). hwslowdown's Close has nothing after it
\* and returns; the others go on.
ComponentClose ==
    /\ component # NoComponent
    /\ component.returned = "component"
    /\ component.closing = "idle"
    /\ component.closes < MaxCloses
    /\ component' =
          IF ClosesBucket(component.kind)
          THEN [component EXCEPT !.ctxCanceled = TRUE, !.closing = "kmsg"]
          ELSE [component EXCEPT !.ctxCanceled = TRUE, !.closes = @ + 1]
    /\ UNCHANGED <<besideComponent, closed>>

\* "if c.kmsgSyncer != nil { c.kmsgSyncer.Close() }".
ComponentClosesKmsg ==
    /\ component # NoComponent
    /\ component.closing = "kmsg"
    /\ component' =
          [component EXCEPT !.closing = "bucket",
                            !.kmsgClosed = @ \/ component.kmsg # "nil"]
    /\ UNCHANGED <<besideComponent, closed>>

\* "if c.eventBucket != nil { c.eventBucket.Close() }", and Close returns.
ComponentClosesBucket ==
    /\ component # NoComponent
    /\ component.closing = "bucket"
    /\ closed' = IF component.eventBucket THEN rootCancel(closed) ELSE closed
    /\ component' = [component EXCEPT !.closing = "idle", !.closes = @ + 1]
    /\ UNCHANGED besideComponent

\* A component is made, started and closed while time passes and the purge
\* loop of its bucket runs.
NextComponent ==
    \/ \E kind \in Kinds, hasStore \in BOOLEAN : ComponentNew(kind, hasStore)
    \/ ComponentCallsBucket
    \/ EnterNewTable(ComponentCreator)
          /\ UNCHANGED <<bucketVars, handleVars, collabVars, pureVars>>
    \/ Exec(ComponentCreator)
          /\ UNCHANGED <<bucketVars, handleVars, collabVars, pureVars>>
    \/ ExecFails(ComponentCreator)
          /\ UNCHANGED <<bucketVars, handleVars, collabVars, pureVars>>
    \/ ComponentCommit
    \/ \E err \in {ErrEngine, ErrBusy} :
          CommitFails(ComponentCreator, err)
             /\ UNCHANGED <<bucketVars, handleVars, collabVars, pureVars>>
    \/ ComponentGetsBucket
    \/ \E root \in BOOLEAN, kmsgErr \in {NoError, ErrKmsg} :
          ComponentNewSyncer(root, kmsgErr)
    \/ ComponentNewReturns
    \/ KmsgReceives
    \/ KmsgFinds
    \/ KmsgInserts
    \/ KmsgDoneFires
    \/ ComponentStart
    \/ \E reason \in {""} \cup CheckReasons : ComponentChecks(reason)
    \/ ComponentFinds
    \/ ComponentInserts
    \/ ComponentTickerFires
    \/ ComponentDoneFires
    \/ ComponentClose
    \/ ComponentClosesKmsg
    \/ ComponentClosesBucket
    \/ ComponentSecondPasses
    \/ TimerFires
    \/ DoneFires
    \/ PurgerPurges
    \/ PurgerFails

SpecComponent == InitComponent /\ [][NextComponent]_vars

\* The goroutines are scheduled, the tickers and timers fire, a Close that
\* was called runs on, and a select whose Done case is ready over and over
\* takes it in the end.
FairComponent ==
    /\ SpecComponent
    /\ WF_vars(\E reason \in {""} \cup CheckReasons : ComponentChecks(reason))
    /\ WF_vars(ComponentFinds)
    /\ WF_vars(ComponentInserts)
    /\ WF_vars(ComponentTickerFires)
    /\ SF_vars(ComponentDoneFires)
    /\ WF_vars(ComponentClosesKmsg)
    /\ WF_vars(ComponentClosesBucket)
    /\ WF_vars(TimerFires)
    /\ SF_vars(DoneFires)
    /\ WF_vars(PurgerPurges \/ PurgerFails)

\* ------------------------------------------------------------ vocabulary of the claims

\* The last call was op and returned no error.
Returned(op) == last.op = op /\ last.err = NoError

\* The positions of the table the last call ran on.
Stored == 1..Len(last.before)

\* The stored timestamp ts (whole seconds) is later than the instant t.
Later(ts, t) == ts > t.sec \/ (ts = t.sec /\ 0 > t.nsec)

\* The returned event e is the stored row r: storing e gives r back.
IsRow(e, r) == RowOf(e) = r

\* Two ExtraInfo maps are equal as maps (a nil map has no keys).
SameExtraInfo(x, y) ==
    /\ DOMAIN x.m = DOMAIN y.m
    /\ \A k \in DOMAIN x.m : x.m[k] = y.m[k]

\* The row r agrees with the probe p on Time (seconds), Name and Type.
SameKey(r, p) == r.timestamp = p.Time.sec /\ r.name = p.Name /\ r.type = p.Type

\* The row r stores exactly the ExtraInfo x.
StoresExtraInfo(r, x) ==
    IF DOMAIN x.m = {}
    THEN r.extra_info \in {Null(<<>>), Text(<<"{", "}">>)}
    ELSE /\ \A k \in DOMAIN x.m : x.m[k] # InvalidUTF8
         /\ r.extra_info = Text(MarshalExtraInfo(x))

\* ------------------------------------------------------------ C1

\* C1: Get(since) returns exactly the stored events whose timestamp is
\* strictly greater than since, each once, none with a timestamp equal to or
\* less than since, and nil (not an empty collection) when none qualifies.
C1_GetReturnsExactlyLaterEvents ==
    Returned("Get") =>
        LET q == {i \in Stored : Later(last.before[i].timestamp, last.since)}
            items == last.events.items
        IN  /\ last.events.isNil <=> q = {}
            /\ Len(items) = Cardinality(q)
            /\ \E f \in [1..Len(items) -> q] :
                  /\ \A k, l \in 1..Len(items) : f[k] = f[l] => k = l
                  /\ \A k \in 1..Len(items) : IsRow(items[k], last.before[f[k]])

\* C1 witness: a Get over a bucket holding a row at `since` or earlier and a
\* row later than `since` returned the later one.
C1_Witness ==
    /\ Returned("Get")
    /\ \E i, j \in Stored :
          /\ last.before[i].timestamp = last.since.sec
          /\ last.before[j].timestamp > last.since.sec
    /\ ~last.events.isNil

\* ------------------------------------------------------------ C2

\* C2: when the stored events have pairwise distinct timestamps, all later
\* than since, Get returns all N of them in strictly descending timestamp
\* order, whatever order they were inserted in.
C2_GetNewestFirst ==
    (/\ Returned("Get")
     /\ Len(last.before) > 0
     /\ \A i, j \in Stored :
            i # j => last.before[i].timestamp # last.before[j].timestamp
     /\ \A i \in Stored : Later(last.before[i].timestamp, last.since))
    => /\ ~last.events.isNil
       /\ Len(last.events.items) = Len(last.before)
       /\ \A k \in 1..(Len(last.events.items) - 1) :
             last.events.items[k].Time.sec > last.events.items[k + 1].Time.sec

\* C2 witness: three events inserted neither oldest-first nor newest-first
\* were all returned by Get.
C2_Witness ==
    /\ Returned("Get")
    /\ Len(last.before) >= 3
    /\ last.before[1].timestamp < last.before[3].timestamp
    /\ last.before[3].timestamp < last.before[2].timestamp
    /\ Len(last.events.items) = Len(last.before)

\* ------------------------------------------------------------ C3

\* C3: Find returns only a stored event that has the probe's Time (seconds),
\* Name and Type and an ExtraInfo equal to the probe's as a map (so it
\* returns nil when no stored event is such), and a live call returns no
\* error.
C3_FindNeverConflates ==
    last.op = "Find" =>
        /\ last.ctx = "live" => last.err = NoError
        /\ ~last.found.isNil =>
              /\ last.err = NoError
              /\ \E i \in Stored : IsRow(last.found.ev, last.before[i])
              /\ last.found.ev.Time.sec = last.ev.Time.sec
              /\ last.found.ev.Name = last.ev.Name
              /\ last.found.ev.Type = last.ev.Type
              /\ SameExtraInfo(last.found.ev.ExtraInfo, last.ev.ExtraInfo)

\* C3 witness: the bucket held two rows with the probe's Time, Name and Type
\* and different ExtraInfo, the earlier one not the probe's; Find passed over
\* it and returned the later one.
C3_Witness ==
    /\ Returned("Find")
    /\ ~last.found.isNil
    /\ \E i, j \in Stored :
          /\ i < j
          /\ SameKey(last.before[i], last.ev)
          /\ last.before[i].extra_info # last.before[j].extra_info
          /\ ~StoresExtraInfo(last.before[i], last.ev.ExtraInfo)
          /\ IsRow(last.found.ev, last.before[j])

\* ------------------------------------------------------------ C4

\* C4: Find(e) returns a non-nil event whenever e was inserted and its row
\* has not been purged since.
C4_InsertedEventIsFound ==
    (Returned("Find") /\ \E i \in 1..Len(hist) : hist[i] = last.ev)
    => ~last.found.isNil

\* ------------------------------------------------------------ C5

\* C5: a probe with a Message gets only an event with that Message, a probe
\* with SuggestedActions only an event that serializes to the same text, and
\* a probe with neither gets an event whenever a stored row has its key and
\* its ExtraInfo, whatever that row's Message and SuggestedActions are.
C5_FindOptionalFields ==
    Returned("Find") =>
        /\ (~last.found.isNil /\ last.ev.Message # "")
              => last.found.ev.Message = last.ev.Message
        /\ (~last.found.isNil /\ ~last.ev.SuggestedActions.isNil)
              => /\ ~last.found.ev.SuggestedActions.isNil
                 /\ MarshalSuggestedActions(last.found.ev.SuggestedActions)
                        = MarshalSuggestedActions(last.ev.SuggestedActions)
        /\ (/\ last.ev.Message = ""
            /\ last.ev.SuggestedActions.isNil
            /\ \E i \in Stored :
                  /\ SameKey(last.before[i], last.ev)
                  /\ StoresExtraInfo(last.before[i], last.ev.ExtraInfo))
              => ~last.found.isNil

\* C5 witness: a probe without Message and SuggestedActions got a stored
\* event that has both.
C5_Witness ==
    /\ Returned("Find")
    /\ last.ev.Message = ""
    /\ last.ev.SuggestedActions.isNil
    /\ ~last.found.isNil
    /\ last.found.ev.Message # ""
    /\ ~last.found.ev.SuggestedActions.isNil

\* ------------------------------------------------------------ C6

\* C6: a successful Insert leaves every stored row as it was and adds exactly
\* one row, the event's, also when an identical row is already stored.
C6_InsertAddsOneRow ==
    Returned("Insert") =>
        /\ Len(rows) = Len(last.before) + 1
        /\ SubSeq(rows, 1, Len(last.before)) = last.before
        /\ SameKey(rows[Len(rows)], last.ev)
        /\ IsRow(last.ev, rows[Len(rows)])

\* C6 witness: the event was inserted into a bucket whose rows were all
\* identical to the row it adds.
C6_Witness ==
    /\ Returned("Insert")
    /\ Len(last.before) >= 2
    /\ \A i \in 1..Len(rows) : rows[i] = rows[Len(rows)]

\* ------------------------------------------------------------ C7

\* C7: with every writer following the Find-before-Insert protocol, no two
\* rows of the bucket agree on Time, Name, Type, Message, SuggestedActions
\* and ExtraInfo.
C7_NoDuplicateRows ==
    \A i, j \in 1..Len(rows) : i # j => rows[i] # rows[j]

\* ------------------------------------------------------------ C8

\* C8: Purge(cutoff) removes exactly the rows with a timestamp below cutoff,
\* leaves the others as they were and in their order, and returns the number
\* of rows it removed.
C8_PurgeDeletesOlderRows ==
    Returned("Purge") =>
        LET kept == {i \in Stored : last.before[i].timestamp >= last.cutoff}
            gone(i) == Cardinality({j \in Stored \ kept : j < i})
        IN  /\ Len(rows) = Cardinality(kept)
            /\ \A i \in kept : rows[i - gone(i)] = last.before[i]
            /\ last.n = Len(last.before) - Cardinality(kept)

\* C8 witness: a Purge removed a row and kept a row stamped exactly cutoff.
C8_Witness ==
    /\ Returned("Purge")
    /\ last.n >= 1
    /\ \E i \in Stored : last.before[i].timestamp = last.cutoff
    /\ Len(rows) >= 1

\* ------------------------------------------------------------ C9

\* C9: a Purge of an empty bucket returns 0, and a Purge that repeats the
\* cutoff of the Purge before it returns 0 and leaves the rows unchanged.
C9_PurgeIdempotent ==
    [][ /\ (last'.op = "Purge" /\ last'.err = NoError /\ Len(last'.before) = 0)
            => (last'.n = 0 /\ rows' = <<>>)
        /\ (/\ Returned("Purge")
            /\ last'.op = "Purge" /\ last'.err = NoError
            /\ last'.cutoff = last.cutoff)
            => (last'.n = 0 /\ rows' = rows) ]_vars

\* C9 witness: a Purge of a bucket that holds rows, none below the cutoff (as
\* after a Purge with that cutoff), returned 0 and left them.
C9_Witness ==
    /\ Returned("Purge")
    /\ Len(last.before) >= 2
    /\ \E i \in Stored : last.before[i].timestamp = last.cutoff
    /\ last.n = 0
    /\ rows = last.before

\* ------------------------------------------------------------ C10

\* C10: Latest returns nil exactly when the bucket holds no rows, and
\* otherwise a stored event whose timestamp is the greatest stored one; a
\* live call returns no error.
C10_LatestIsNewest ==
    last.op = "Latest" =>
        /\ last.ctx = "live" => last.err = NoError
        /\ last.err = NoError =>
              /\ last.found.isNil <=> Len(last.before) = 0
              /\ ~last.found.isNil =>
                    /\ \E i \in Stored : IsRow(last.found.ev, last.before[i])
                    /\ \A j \in Stored :
                          last.before[j].timestamp <= last.found.ev.Time.sec

\* C10 witness: the newest event was inserted first and an older one last,
\* and Latest returned the newest.
C10_Witness ==
    /\ Returned("Latest")
    /\ Len(last.before) >= 2
    /\ last.before[1].timestamp > last.before[Len(last.before)].timestamp
    /\ \A j \in Stored : last.before[j].timestamp <= last.before[1].timestamp
    /\ ~last.found.isNil
    /\ last.found.ev.Time.sec = last.before[1].timestamp

\* C11: every bucket operation (Insert, Find, Get, Latest, Purge) called with
\* an already canceled or expired context returns a non-nil error, hands back
\* no result, and leaves the stored rows exactly as they were before the call.
C11_CanceledContextFailsWithoutMutation ==
    (last.op # "none" /\ last.ctx = "canceled") =>
        /\ last.err # NoError
        /\ rows = last.before
        /\ last.events.isNil
        /\ last.found.isNil
        /\ last.n = 0

\* C11 witness: an Insert under a canceled context on a bucket that already
\* holds a row and still has room for another.
C11_Witness ==
    /\ last.op = "Insert"
    /\ last.ctx = "canceled"
    /\ Len(last.before) \in 1..(MaxRows - 1)
    /\ last.err = ErrCanceled

\* C13: disabling purge for one bucket does not change what other buckets
\* created later from the same Store get: every handle made by Bucket without
\* the option has the retention the Store was configured with, the purge
\* interval max(retention / 5, one second), and a purge loop exactly when
\* that retention is above one second.
C13_DisablePurgeLeavesOtherBuckets ==
    \A i \in 1..Len(handles) :
        handles[i].by = "Bucket" =>
            /\ handles[i].t.retention = configured
            /\ handles[i].t.purgeInterval = PurgeIntervalOf(configured)
            /\ handles[i].t.purger = (configured > Second)

\* A step of creator c that belongs to a LoadBucketWithNoPurge call.
LoadStep(c) ==
    /\ calls'[c] # calls[c]
    /\ \/ calls[c].pc # "idle" /\ calls[c].op = "LoadBucketWithNoPurge"
       \/ calls'[c].pc = "newTable" /\ calls'[c].op = "LoadBucketWithNoPurge"

\* C15: whatever retention the Store was configured with, no step of a
\* LoadBucketWithNoPurge call changes the Store's retention field, so a later
\* Bucket(name) reads the same retention as before the call; and the handle
\* the call returns has retention zero, interval zero and no purge loop.
C15_LoadBucketWithNoPurgeLeavesStore ==
    [][\A c \in Creators :
            LoadStep(c) =>
                /\ dRetention' = dRetention
                /\ handles' # handles =>
                      LET h == handles'[Len(handles')]
                      IN  /\ h.by = "LoadBucketWithNoPurge"
                          /\ h.t.retention = 0
                          /\ h.t.purgeInterval = 0
                          /\ ~h.t.purger]_vars

\* C15 witness: on a Store configured above one second, a handle from
\* LoadBucketWithNoPurge without a purge loop, followed by a handle from
\* Bucket that has the configured retention and a purge loop.
C15_Witness ==
    /\ configured > Second
    /\ Len(handles) = 2
    /\ handles[1].by = "LoadBucketWithNoPurge"
    /\ handles[1].t.retention = 0
    /\ ~handles[1].t.purger
    /\ handles[2].by = "Bucket"
    /\ handles[2].t.retention = configured
    /\ handles[2].t.purger

\* The creators whose last call returned an error.
FailedCreators == {c \in Creators : calls[c].pc = "idle" /\ calls[c].err # NoError}

\* Every call made so far asked for the table of creator c's call.
OnlyTableOf(c) ==
    /\ \A c2 \in Creators :
            calls[c2].op # "none" /\ (calls[c2].pc # "idle" \/ calls[c2].err # NoError)
                => calls[c2].table = calls[c].table
    /\ \A i \in 1..Len(handles) : handles[i].t.table = calls[c].table

\* C20: creating a bucket whose table exists does not fail, and concurrent
\* first-time creators of one name do not fail each other with "already
\* exists": no call ever returns that error; a call fails only on the write
\* lock, and then another creator of that table holds the lock or has
\* returned its handle (so one creator succeeds); while creators are inside
\* createTable one of them can always move on (no deadlock); the schema never
\* holds an object twice, and every returned handle's table is there with
\* its three indexes.
C20_ConcurrentCreation ==
    /\ \A c \in Creators : calls[c].err # ErrExists
    /\ \A c \in FailedCreators :
            /\ calls[c].err = ErrBusy
            /\ OnlyTableOf(c) =>
                    \/ \E c2 \in InFlight : wlock = c2
                    \/ \E i \in 1..Len(handles) :
                            handles[i].t.table = calls[c].table
    /\ InFlight # {} => ENABLED (\E c \in Creators : Step(c))
    /\ \A i, j \in 1..Len(catalog) : catalog[i] = catalog[j] => i = j
    /\ \A i \in 1..Len(handles) :
            \A k \in 1..Len(Statements) :
                Exists(catalog, ObjectOf(Statements[k], handles[i].t.table))

\* C20 witness: two creators asked for the same new name at once; one met
\* the other's write lock and failed, the other returned the only handle,
\* and the schema holds that table and its three indexes once each.
C20_Witness ==
    \E c \in FailedCreators :
        /\ calls[c].err = ErrBusy
        /\ OnlyTableOf(c)
        /\ InFlight = {}
        /\ Len(handles) = 1
        /\ catalog = TableObjects(calls[c].table)

\* C20 second witness: two handles for one name, the second created when
\* the table and its indexes were already there.
C20_WitnessExisting ==
    /\ Len(handles) = 2
    /\ handles[1].t.table = handles[2].t.table
    /\ catalog = TableObjects(handles[1].t.table)
    /\ FailedCreators = {}

\* The stored timestamp ts (whole seconds) is older than the instant t.
Older(ts, t) == ts < t.sec \/ (ts = t.sec /\ t.nsec > 0)

\* The rows of a table that are not older than now minus the retention.
WithinRetention(tbl) ==
    SelectSeq(tbl, LAMBDA r : ~Older(r.timestamp, Add(now, -handle.retention)))

\* A row with timestamp ts is stored and older than now minus the retention.
Expired(ts) ==
    /\ \E i \in 1..Len(rows) : rows[i].timestamp = ts
    /\ Older(ts, Add(now, -handle.retention))

\* The step in which runPurge's purge call returns.
PurgerStep == loop = "purge" /\ loop' # "purge"

\* C12: for a bucket with a purge loop (retention above one second) that is
\* not closed, every stored row older than now minus the retention is
\* eventually deleted, and a purge of the loop deletes no row whose timestamp
\* is at or after now minus the retention at the moment of that purge.
C12_PurgerDeletesExpiredRowsOnly ==
    /\ [][PurgerStep => WithinRetention(rows') = WithinRetention(rows)]_vars
    /\ \A ts \in {Unix(e.Time) : e \in ClockEvents} :
          (handle.purger /\ ~closed /\ Expired(ts))
              ~> (closed \/ \A i \in 1..Len(rows) : rows[i].timestamp # ts)

\* C12 witness: with a retention of two seconds the loop has purged the one
\* row that was too old and a Get then returned the one newer event.
C12_Witness ==
    /\ handle.retention = 2 * Second
    /\ ~closed
    /\ logged = [purged |-> 1, err |-> NoError]
    /\ Returned("Get")
    /\ Len(last.events.items) = 1
    /\ Len(rows) = 1
    /\ ~Older(rows[1].timestamp, Add(now, -handle.retention))

\* The step of an explicit Purge call that removed what this step removed.
ExplicitPurgeStep ==
    /\ last'.op = "Purge"
    /\ last'.err = NoError
    /\ last'.n = Len(rows) - Len(rows')

\* C14: a bucket whose retention is not above one second, which includes
\* every bucket created with disablePurge, never has a purge task: its loop
\* is never started, and rows leave its table only in explicit Purge calls.
C14_NoPurgeTaskWithoutRetention ==
    /\ [](handles[1].by = "BucketNoPurge" => handle.retention <= Second)
    /\ [](handle.retention <= Second => loop = "none" /\ logged = NoLog)
    /\ [][handle.retention <= Second /\ rows' # rows /\ Len(rows') <= Len(rows)
              => ExplicitPurgeStep]_vars

\* C14 witness: a handle with a retention of exactly one second, the clock
\* at its end, and a row older than now minus the retention still stored
\* after an explicit Purge removed another.
C14_Witness ==
    /\ handle.retention = Second
    /\ loop = "none"
    /\ now.sec = MaxNow
    /\ Returned("Purge")
    /\ last.n >= 1
    /\ \E i \in 1..Len(rows) : Older(rows[i].timestamp, Add(now, -handle.retention))

\* C16: an error of one purge attempt does not stop the loop: after a failed
\* attempt of a bucket that is not closed the loop is still running, and while
\* the bucket is not closed purge attempts are made again and again, also
\* when every one of them fails.
C16_FailedPurgeKeepsLoop ==
    /\ [](logged.err # NoError /\ ~closed => loop \in {"select", "purge"})
    /\ []<>(loop = "purge" \/ closed \/ ~handle.purger)

\* C16 witness: the last attempt failed in the engine, the bucket is open,
\* and the loop is at its next purge attempt.
C16_Witness ==
    /\ logged.err = ErrEngine
    /\ ~closed
    /\ loop = "purge"

\* C17: the purge task ends only on the cancellation signal: it never exits
\* before Close was called, and once Close was called it eventually exits,
\* from its wait as well as from the middle of a purge.
C17_PurgerExitsOnlyOnClose ==
    /\ [](loop = "exited" => closed)
    /\ (closed /\ handle.purger) ~> (loop = "exited")

\* C17 witness: the bucket was closed in the middle of a purge, which failed
\* on the canceled context, and the task has exited.
C17_Witness ==
    /\ closed
    /\ loop = "exited"
    /\ logged.err = ErrCanceled

\* A Close call (one that shows in the call record).
CloseStep == last'.op = "Close" /\ last' # last

\* C18: Close is idempotent: a Close call on a bucket that is already closed
\* leaves it closed and changes neither the handle, the stored rows, the
\* schema nor the state of the purge task.
C18_CloseIdempotent ==
    [][closed /\ CloseStep =>
            /\ closed'
            /\ UNCHANGED <<rows, hist, catalog, handle, loop, logged, purgeNow>>]_vars

\* C18 witness: Close was called twice in a row on a bucket with a purge
\* task, which has exited, and the rows are still stored.
C18_Witness ==
    /\ last.op = "Close"
    /\ last.n = 2
    /\ closed
    /\ loop = "exited"
    /\ Len(rows) >= 1

\* A step in which a purge ran its statement: the owner's or the loop's.
PurgeStep ==
    \/ last'.op = "Purge" /\ last' # last
    \/ PurgerStep

\* C19: Close deletes no data and Purge never deletes the table: the rows
\* and the schema are the same before and after Close, every purge leaves
\* the bucket's table in the schema, and every Insert and Get through the
\* handle succeeds, also after a purge that removed every row.
C19_CloseAndPurgeKeepTable ==
    /\ [][CloseStep => rows' = rows /\ catalog' = catalog]_vars
    /\ [][PurgeStep => Exists(catalog', handle.table)]_vars
    /\ [](last.op \in {"Insert", "Get"} => last.err = NoError)

\* C19 witness: the purge loop removed all three rows of a full table, the
\* bucket was closed, and an Insert after that succeeded and is stored.
C19_Witness ==
    /\ logged = [purged |-> 3, err |-> NoError]
    /\ closed
    /\ Returned("Insert")
    /\ Len(rows) = 1

\* The schema holds all four objects of the table, or none of them.
AllOrNothing(tableName) ==
    \/ \A k \in 1..Len(Statements) :
            Exists(catalog, ObjectOf(Statements[k], tableName))
    \/ \A k \in 1..Len(Statements) :
            ~Exists(catalog, ObjectOf(Statements[k], tableName))

\* A step in which a creator's createTable commits.
CommitStep ==
    \E c \in Creators :
        /\ calls[c].pc = "Commit"
        /\ calls'[c].pc = "idle"
        /\ calls'[c].err = NoError

\* C21: table creation is atomic. The schema changes only when a createTable
\* commits, so a failed statement or a crash before the commit leaves neither
\* the table nor an index behind; and at every moment a table that is
\* visible has its three indexes (and no index is visible without its table).
C21_CreationIsAtomic ==
    /\ [][catalog' # catalog => CommitStep]_vars
    /\ [](\A name \in CreateNames : AllOrNothing(defaultTableName(name)))

\* C21 witness: a creator failed in the engine after its transaction had
\* created the table and an index, and the schema shows none of them.
C21_Witness ==
    \E c \in Creators :
        /\ calls[c].pc = "idle"
        /\ calls[c].err = ErrEngine
        /\ Len(calls[c].pending) >= 2
        /\ \A k \in 1..Len(Statements) :
                ~Exists(catalog, ObjectOf(Statements[k], calls[c].table))

\* C21 second witness: every statement of a creator went through and its
\* tx.Commit failed; the call returned the error and the schema shows
\* nothing of the table.
C21_WitnessCommitFails ==
    \E c \in Creators :
        /\ calls[c].pc = "idle"
        /\ calls[c].err = ErrEngine
        /\ Len(calls[c].pending) = Len(Statements)
        /\ handles = <<>>
        /\ \A k \in 1..Len(Statements) :
                ~Exists(catalog, ObjectOf(Statements[k], calls[c].table))

\* The text is safe to splice into a statement as a table name.
SafeName(tableName) == \A i \in 1..Len(tableName) : tableName[i] # ";"

\* C23: Bucket(name) for a name whose derived table name is not safe (one
\* with a ';') is rejected: the call returns an error and no handle, nothing
\* of it gets into the schema, and since no table struct is built no purge
\* task is started for it.
C23_UnsafeNameRejected ==
    /\ \A c \in Creators :
            (calls[c].pc = "idle" /\ calls[c].op # "none"
                /\ ~SafeName(calls[c].table)) => calls[c].err # NoError
    /\ \A i \in 1..Len(handles) : SafeName(handles[i].t.table)
    /\ \A i \in 1..Len(catalog) : SafeName(catalog[i])

\* C23 witness: on a Store whose retention asks for purge loops, a Bucket
\* call for the name with the ';' has returned the engine's syntax error.
C23_Witness ==
    \E c \in Creators :
        /\ configured > Second
        /\ calls[c].pc = "idle"
        /\ calls[c].op = "Bucket"
        /\ calls[c].table = defaultTableName(<<"a", ";", "b">>)
        /\ calls[c].err = ErrSQL
        /\ handles = <<>>
        /\ catalog = <<>>

\* A separator of a logical name, or the underscore that stands for one.
IsSeparator(ch) == ch \in {" ", "-", "_"}

\* The name as the claim derives it: each run of separators is one
\* underscore, every letter is lower case.
RECURSIVE Normalised(_)
Normalised(s) ==
    IF s = <<>> THEN <<>>
    ELSE IF IsSeparator(s[1])
         THEN IF Len(s) >= 2 /\ IsSeparator(s[2])
              THEN Normalised(Tail(s))
              ELSE <<"_">> \o Normalised(Tail(s))
         ELSE ToLower(<<s[1]>>) \o Normalised(Tail(s))

\* Two names differ at most in letter case and in space versus hyphen.
SameButCaseAndSeparator(n1, n2) ==
    /\ Len(n1) = Len(n2)
    /\ \A i \in 1..Len(n1) :
            \/ ToLower(<<n1[i]>>) = ToLower(<<n2[i]>>)
            \/ {n1[i], n2[i]} \subseteq {" ", "-"}

\* C22: the physical name is a function of the logical name: spaces and
\* hyphens become underscores, every run of consecutive separators becomes
\* a single underscore, letters are lowercased, and the result is wrapped as
\* components_<name>_events_<schema version>; names that differ only in
\* letter case or in space versus hyphen derive the same physical name.
C22_PhysicalName ==
    output # NoValue =>
        /\ output = <<"components_">> \o Normalised(input) \o <<"_events_", "v0_4_0">>
        /\ \A n \in Names :
                SameButCaseAndSeparator(input, n) => defaultTableName(n) = output

\* What of C22 the code does keep: the name is wrapped, and names that
\* differ only in case or in space versus hyphen share a physical name.
C22_SameForCaseAndSeparator ==
    output # NoValue =>
        /\ output[1] = "components_"
        /\ SubSeq(output, Len(output) - 1, Len(output)) = <<"_events_", "v0_4_0">>
        /\ \A n \in Names :
                SameButCaseAndSeparator(input, n) => defaultTableName(n) = output

\* C24: decoding a stored ExtraInfo or SuggestedActions value follows one
\* rule: NULL, the empty text and the text "null" decode to absent without
\* error; any other text that does not begin with '{' fails with "invalid
\* JSON"; a text that begins with '{' is parsed as an object, and then the
\* result is present or the parse error is returned, never absent in silence.
C24_DecodeRule ==
    output # NoValue =>
        LET data == input.data
            absent == ~data.Valid \/ data.String = <<>> \/ data.String = <<"null">>
        IN  /\ absent => output.err = NoError /\ output.v.isNil
            /\ (~absent /\ data.String[1] # "{") =>
                    output.err = ErrInvalidJSON /\ output.v.isNil
            /\ (~absent /\ data.String[1] = "{") =>
                    /\ output.err \in {NoError, ErrSyntax, ErrType}
                    /\ output.err = NoError => ~output.v.isNil
                    /\ ~checkValid(data.String) =>
                            output.err = ErrSyntax /\ output.v.isNil

\* C24 witness: a suggested_actions text that begins with '{' and breaks
\* off was decoded, and the parse error came back.
C24_Witness ==
    /\ output # NoValue
    /\ input.column = "suggested_actions"
    /\ input.data = Text(SubSeq(MarshalSuggestedActions(Actions1), 1, 6))
    /\ output.err = ErrSyntax

\* An extra_info column holding the text of suggested actions was decoded:
\* the type error came back and the map holds the two keys with "".
C24_WitnessTypeError ==
    /\ output # NoValue
    /\ input.column = "extra_info"
    /\ input.data = Text(MarshalSuggestedActions(Actions1))
    /\ output.err = ErrType
    /\ output.v = MapOf([k \in {"descriptions", "repair_actions"} |-> ""])

\* A suggested_actions column holding an object of unknown keys was
\* decoded: no error, and actions without descriptions or repair actions.
C24_WitnessUnknownKey ==
    /\ output # NoValue
    /\ input.column = "suggested_actions"
    /\ input.data = Text(<<"{", "a", ":", "b", "}">>)
    /\ output.err = NoError
    /\ output.v = ActionsOf(<<>>, <<>>)

\* A suggested_actions column whose members come in the other order was
\* decoded into the same actions.
C24_WitnessOtherOrder ==
    /\ output # NoValue
    /\ input.column = "suggested_actions"
    /\ input.data = Text(<<"{", "repair_actions", ":", "[", "HARDWARE_INSPECTION",
                           "]", ",", "descriptions", ":", "[", "d1", "]", "}">>)
    /\ output.err = NoError
    /\ output.v = Actions1

\* C25: Insert stores an absent ExtraInfo, an absent SuggestedActions and an
\* empty Message as NULL, never as the text "null" or the empty text, and
\* such a row reads back as absent and as the empty Message; an ExtraInfo
\* map that is present but empty is stored as an object and reads back
\* present, with no key.
C25_AbsentIsNull ==
    output # NoValue =>
        LET row == output.row
            back == output.scanned
        IN  /\ back.err = NoError
            /\ input.ExtraInfo.isNil =>
                    ~row.extra_info.Valid /\ back.event.ExtraInfo.isNil
            /\ input.SuggestedActions.isNil =>
                    ~row.suggested_actions.Valid
                    /\ back.event.SuggestedActions.isNil
            /\ input.Message = "" =>
                    ~row.message.Valid /\ back.event.Message = ""
            /\ row.message.Valid => row.message.String # ""
            /\ row.extra_info.Valid =>
                    row.extra_info.String \notin {<<>>, <<"null">>}
            /\ row.suggested_actions.Valid =>
                    row.suggested_actions.String \notin {<<>>, <<"null">>}
            /\ (~input.ExtraInfo.isNil /\ MapLen(input.ExtraInfo) = 0) =>
                    /\ row.extra_info = Text(<<"{", "}">>)
                    /\ ~back.event.ExtraInfo.isNil
                    /\ MapLen(back.event.ExtraInfo) = 0

\* C25 witness: an event without Message, ExtraInfo and SuggestedActions
\* was written after one with an empty map, and both were read back.
C25_Witness ==
    /\ output # NoValue
    /\ Len(rows) = 2
    /\ rows[1].extra_info = Text(<<"{", "}">>)
    /\ input = BaseEvent
    /\ ~output.row.message.Valid
    /\ ~output.row.extra_info.Valid
    /\ ~output.row.suggested_actions.Valid
    /\ output.scanned.event.ExtraInfo.isNil

\* Every string of the event is valid UTF-8.
ValidEvent(ev) ==
    /\ InvalidUTF8 \notin {ev.Name, ev.Type, ev.Message}
    /\ \A k \in DOMAIN ev.ExtraInfo.m : ev.ExtraInfo.m[k] # InvalidUTF8
    /\ \A i \in DOMAIN ev.SuggestedActions.descriptions :
            ev.SuggestedActions.descriptions[i] # InvalidUTF8

\* The event Find returned has the fields of ev, and its time to the second.
SameAsInserted(r, ev) ==
    /\ r.err = NoError
    /\ ~r.found.isNil
    /\ r.found.ev.Name = ev.Name
    /\ r.found.ev.Type = ev.Type
    /\ r.found.ev.Message = ev.Message
    /\ r.found.ev.ExtraInfo = ev.ExtraInfo
    /\ r.found.ev.SuggestedActions = ev.SuggestedActions
    /\ Unix(r.found.ev.Time) = Unix(ev.Time)

\* C26: Find with an event that was just inserted returns an event with the
\* same Name, Type, Message, ExtraInfo and SuggestedActions, and with the
\* inserted Time to the second.
C26_RoundTrip ==
    (output # NoValue /\ ValidEvent(input)) => SameAsInserted(output.find, input)

\* The round trip in a bucket that holds no other row.
C26_RoundTripAlone ==
    (output # NoValue /\ ValidEvent(input) /\ Len(rows) = 1)
        => SameAsInserted(output.find, input)

\* Find returned an earlier row with another Message.
C26_OtherMessage ==
    ~(/\ output # NoValue
      /\ rows = <<RowOf(WithPayload("m1", NilActions)), RowOf(BaseEvent)>>
      /\ input = BaseEvent
      /\ ~output.find.found.isNil
      /\ output.find.found.ev.Message = "m1")

\* The column holds a text that decodes neither to absent nor to an object.
Malformed(column, parsed) ==
    /\ column.Valid
    /\ column.String \notin {<<>>, <<"null">>}
    /\ column.String[1] # "{" \/ parsed.err # NoError

\* The row r holds a malformed ExtraInfo or SuggestedActions payload.
MalformedRow(r) ==
    \/ Malformed(r.extra_info, UnmarshalMap(r.extra_info.String))
    \/ Malformed(r.suggested_actions,
                 UnmarshalSuggestedActions(r.suggested_actions.String))

\* The positions of the rows Get(since) selects.
SelectedBy(since) == {i \in Stored : last.before[i].timestamp > Unix(since)}

\* C27: when a row selected by Get holds a malformed ExtraInfo or
\* SuggestedActions payload, Get fails with a "failed to unmarshal" error
\* and returns no event, whatever valid rows are selected with it; when no
\* selected row is malformed Get returns every selected row.
C27_MalformedRowAbortsGet ==
    last.op = "Get" =>
        IF \E i \in SelectedBy(last.since) : MalformedRow(last.before[i])
        THEN /\ last.err \in {ErrExtraInfo, ErrSuggestedActions}
             /\ last.events.isNil
             /\ last.events.items = <<>>
        ELSE /\ last.err = NoError
             /\ Len(last.events.items) = Cardinality(SelectedBy(last.since))

\* C27 witness: Get selected a valid row that sorts first and a malformed
\* row after it, and returned the error and no event.
C27_Witness ==
    /\ last.op = "Get"
    /\ last.err = ErrSuggestedActions
    /\ last.events.isNil
    /\ \E i, j \in SelectedBy(last.since) :
          /\ ~MalformedRow(last.before[i])
          /\ MalformedRow(last.before[j])
          /\ last.before[i].timestamp > last.before[j].timestamp

\* The place of the int64 v in the ascending order of Timestamps64.
Rank(v) == CHOOSE i \in DOMAIN Timestamps64 : Timestamps64[i] = v

\* C28: for timestamp 0, negative timestamps, timestamps beyond 32 bits and
\* at the limits of int64, Insert stores the timestamp untruncated, Find
\* matches the row and returns exactly the same Unix seconds, Get selects
\* the row exactly when the timestamp is greater than since and Purge
\* deletes it exactly when the timestamp is less than the cutoff, in the
\* order of the integers and not of their bit patterns.
C28_Timestamps64 ==
    /\ output.op \in {"Insert", "Find", "Get", "Purge"} =>
            output.column = input.ts
    /\ output.op \in {"Find", "Get", "Purge"} =>
            output.matched /\ output.found = input.ts
    /\ output.op \in {"Get", "Purge"} =>
            (output.selected <=> Rank(input.bound) < Rank(input.ts))
    /\ output.op = "Purge" =>
            (output.deleted <=> Rank(input.ts) < Rank(input.bound))

\* C28 witness: the event at -(2^62 + 100) was inserted and found with its
\* seconds, not selected by Get since 2^32 and deleted by Purge before 2^32.
C28_Witness ==
    /\ output.op = "Purge"
    /\ input.ts = <<49151, 65535, 65535, 65436>>
    /\ input.bound = <<0, 1, 0, 0>>
    /\ output.found = input.ts
    /\ ~output.selected
    /\ output.deleted

\* The events the inserter has inserted so far.
Inserted == {hist[i] : i \in 1..Len(hist)}

\* C29: with one caller inserting EventCount events and others calling Get
\* and Find meanwhile, in any interleaving: the table holds one row for
\* every Insert that returned, in the order of the Inserts; every Get
\* succeeds and returns inserted events only, newest first; every Find
\* succeeds and returns nothing or the inserted event it asked for; and a
\* Get called after the last Insert returns exactly the EventCount events.
C29_ConcurrentInsertAndRead ==
    /\ rows = [i \in 1..Len(hist) |-> RowOf(hist[i])]
    /\ \A i \in 1..Len(hist) : hist[i] = ConcurrentEvent(i)
    /\ last.op = "Get" =>
          /\ last.err = NoError
          /\ \A k \in 1..Len(last.events.items) :
                last.events.items[k] \in Inserted
          /\ \A k \in 1..(Len(last.events.items) - 1) :
                Unix(last.events.items[k].Time)
                    > Unix(last.events.items[k + 1].Time)
          /\ (last.n = EventCount /\ last.since = TimeOf(0, 0)) =>
                /\ Len(last.events.items) = EventCount
                /\ {last.events.items[k] : k \in 1..EventCount}
                       = {ConcurrentEvent(i) : i \in 1..EventCount}
    /\ last.op = "Find" =>
          /\ last.err = NoError
          /\ ~last.found.isNil =>
                last.found.ev = last.ev /\ last.ev \in Inserted

\* C29 witness: a Get that started after the first Insert returned one
\* event when all the events were in, and nothing was lost.
C29_Witness ==
    /\ last.op = "Get"
    /\ last.n = 1
    /\ Len(last.events.items) = 1
    /\ Len(hist) = EventCount
    /\ Len(rows) = EventCount

\* The rows of tbl with a timestamp at or above the cutoff, in their order.
AtOrAbove(tbl, cutoff) == SelectSeq(tbl, LAMBDA r : r.timestamp >= cutoff)

\* The step in which a Purge call of the owner ran its DELETE.
OwnerPurgeRan == last'.op = "Purge" /\ last' # last /\ last'.err = NoError

\* The step in which the loop's Purge call ran its DELETE.
LoopPurgeRan == PurgerStep /\ logged'.err = NoError

\* C30: a purge that runs while Inserts and reads go on, the owner's or the
\* loop's, removes every row that is in the table when it runs and has a
\* timestamp below its cutoff, and removes no row with a timestamp at or
\* above the cutoff, wherever it falls among the Inserts.
C30_PurgeAmongInserts ==
    /\ [][OwnerPurgeRan => rows' = AtOrAbove(rows, last'.cutoff)]_vars
    /\ [][LoopPurgeRan =>
             rows' = AtOrAbove(rows, PurgeCutoff(purgeNow, handle.retention))]_vars

\* C30 witness: the loop purged two rows, left the one row at its cutoff or
\* above, and an Insert after the purge put a row of the oldest timestamp,
\* which is below the cutoff of any purge that deleted a row, back in the
\* table.
C30_Witness ==
    /\ logged = [purged |-> 2, err |-> NoError]
    /\ ~closed
    /\ Returned("Insert")
    /\ Len(rows) = 2
    /\ rows[1].timestamp >= PurgeCutoff(now, handle.retention)
    /\ rows[2].timestamp = -2
    /\ last.ev = AtTime(TimeOf(-2, 0))

\* C30 second witness: the loop read the clock at 2.5 s, time went on and an
\* Insert put a row in the table that is older than the present clock minus
\* the retention and not below the cutoff of the clock as read; the loop's
\* DELETE is still to run.
C30_WitnessLateDelete ==
    /\ loop = "purge"
    /\ ~closed
    /\ handle.retention = 2 * Second
    /\ purgeNow = TimeOf(2, 500000000)
    /\ now = TimeOf(3, 0)
    /\ Returned("Insert")
    /\ rows = <<RowOf(AtTime(TimeOf(0, 0)))>>
    /\ rows[1].timestamp < PurgeCutoff(now, handle.retention)
    /\ rows[1].timestamp >= PurgeCutoff(purgeNow, handle.retention)

\* C31: compareEvent(A, B) is true exactly when the ExtraInfo of A and of B
\* have the same number of keys and every key of A is in B with the same
\* value, which is equality of the two maps; it gives the same answer with
\* A and B exchanged; and an event without keys (nil or empty map) matches
\* the events without keys and no other.
C31_CompareIsMapEquality ==
    output # NoValue =>
        LET x == input.eventA.ExtraInfo
            y == input.eventB.ExtraInfo
        IN  /\ output.ab <=>
                  /\ Cardinality(DOMAIN x.m) = Cardinality(DOMAIN y.m)
                  /\ \A k \in DOMAIN x.m : k \in DOMAIN y.m /\ y.m[k] = x.m[k]
            /\ output.ab <=> SameExtraInfo(x, y)
            /\ output.ab <=> output.ba
            /\ DOMAIN x.m = {} => (output.ab <=> DOMAIN y.m = {})

\* C31 witness: the nil map was compared with the empty map and they
\* matched, both ways.
C31_Witness ==
    /\ output # NoValue
    /\ input.eventA.ExtraInfo = NilMap
    /\ input.eventB.ExtraInfo = MapOf(<<>>)
    /\ output.ab
    /\ output.ba

\* A map was compared with one that has the same keys and another value.
C31_WitnessOtherValue ==
    /\ output # NoValue
    /\ DOMAIN input.eventA.ExtraInfo.m = {"a", "c"}
    /\ DOMAIN input.eventB.ExtraInfo.m = {"a", "c"}
    /\ ~output.ab

\* C32: sync() scrapes exactly once, and when the scrape fails it returns
\* the scraper's error unmodified without calling the store: the metrics
\* the MetricsStore holds are those it held before the failed sync.
C32_ScrapeErrorSkipsStore ==
    syncer.sync = "returned" =>
        /\ syncer.calls.Scrape = 1
        /\ scraper.err # NoError =>
               /\ syncer.err = scraper.err
               /\ syncer.calls.Record = 0
               /\ mstore.records = syncer.before

\* C32 witness: a sync() whose Scraper failed with metrics in its hand has
\* returned.
C32_Witness ==
    /\ syncer.sync = "returned"
    /\ scraper.err = ErrScrape
    /\ scraper.metrics # <<>>
    /\ scraper.scrapes >= 1
    /\ syncer.err = ErrScrape

\* C33: when the scrape succeeds, sync() records all the scraped metrics in
\* one Record call, after which the store holds every one of them; and
\* when Record fails, sync() returns the store's error unmodified and none
\* of the scraped metrics is in the store.
C33_RecordsAllInOneCall ==
    (syncer.sync = "returned" /\ scraper.err = NoError) =>
        /\ syncer.calls.Record = 1
        /\ IF mstore.recordErr = NoError
           THEN /\ syncer.err = NoError
                /\ mstore.records = syncer.before \o scraper.metrics
           ELSE /\ syncer.err = mstore.recordErr
                /\ mstore.records = syncer.before
                /\ \A i \in 1..Len(mstore.records) :
                       \A j \in 1..Len(scraper.metrics) :
                           mstore.records[i] # scraper.metrics[j]

\* C33 witness: a sync() of two metrics has returned without error and the
\* store holds the two.
C33_Witness ==
    /\ syncer.sync = "returned"
    /\ scraper.err = NoError
    /\ syncer.err = NoError
    /\ Len(scraper.metrics) = 2
    /\ mstore.records = scraper.metrics

\* A sync() of two metrics has returned the store's error.
C33_WitnessStoreError ==
    /\ syncer.sync = "returned"
    /\ scraper.err = NoError
    /\ Len(scraper.metrics) = 2
    /\ syncer.err = ErrStore
    /\ mstore.records = <<>>

\* C34: after Start() both loops go on across the errors of their
\* iterations. With a Scraper that always errors the scrape is invoked
\* again at every scrape interval, at least twice and again and again
\* until Stop; with a MetricsStore whose Purge always errors the purge is
\* invoked again likewise; neither loop ends before Stop, whatever the
\* other loop's calls return, and a loop that waits for its interval gets
\* its next iteration (the scrape loop as long as the store is followed).
C34_LoopsSurviveErrors ==
    /\ [](~syncer.canceled =>
             syncer.scrapeLoop # "exited" /\ syncer.purgeLoop # "exited")
    /\ (syncer.started /\ scraper.err # NoError)
           ~> (scraper.scrapes >= 2 \/ syncer.canceled)
    /\ (syncer.started /\ scraper.err # NoError)
           ~> (syncer.sync = "scrape" \/ syncer.canceled)
    /\ (syncer.started /\ mstore.purgeErr # NoError)
           ~> (mstore.purgeCount >= 2 \/ syncer.canceled)
    /\ (syncer.started /\ mstore.purgeErr # NoError)
           ~> (syncer.purgeLoop = "purge" \/ syncer.canceled)
    /\ (syncer.scrapeLoop = "select" /\ HasRoom)
           ~> (syncer.scrapeLoop = "sync" \/ syncer.canceled)
    /\ (syncer.purgeLoop = "select")
           ~> (syncer.purgeLoop = "purge" \/ syncer.canceled)

\* C34 witness: a running Syncer whose Scraper and whose Purge both fail
\* has scraped twice and purged twice, and waits for its next intervals.
C34_Witness ==
    /\ syncer.started
    /\ ~syncer.canceled
    /\ scraper.err = ErrScrape
    /\ mstore.purgeErr = ErrPurge
    /\ scraper.scrapes >= 2
    /\ mstore.purgeCount >= 2
    /\ syncer.err = ErrScrape
    /\ syncer.scrapeLoop = "select"
    /\ syncer.purgeLoop = "select"

\* C35: Stop() called once after Start() signals both loops to exit: the
\* scrape loop and the purge loop both terminate in the end, and once they
\* have exited no Scrape, Record or Purge call is made any more.
C35_StopEndsBothLoops ==
    /\ syncer.canceled
           ~> (syncer.scrapeLoop = "exited" /\ syncer.purgeLoop = "exited")
    /\ [][(syncer.scrapeLoop = "exited" /\ syncer.purgeLoop = "exited") =>
             <<scraper, mstore, syncer>>' = <<scraper, mstore, syncer>>]_vars

\* C35 witness: a Syncer that scraped and purged was stopped and both its
\* loops have exited.
C35_Witness ==
    /\ syncer.canceled
    /\ syncer.scrapeLoop = "exited"
    /\ syncer.purgeLoop = "exited"
    /\ scraper.scrapes >= 1
    /\ mstore.purgeCount >= 1
    /\ Len(mstore.records) >= 1

\* The samples of a store younger than retainDuration at time t, and
\* whether it holds one that is older.
YoungAt(records, t, retainDuration) ==
    SelectSeq(records,
              LAMBDA x : x.UnixMilliseconds >= UnixMilli(t) - retainDuration)
HasOldAt(records, t, retainDuration) ==
    \E i \in 1..Len(records) :
        records[i].UnixMilliseconds < UnixMilli(t) - retainDuration
IsPrefix(a, b) == Len(a) <= Len(b) /\ SubSeq(b, 1, Len(a)) = a

\* C36: the purge loop always purges with the cutoff now minus
\* retainDuration, so no step of the Syncer removes a sample younger than
\* retainDuration, a purge that runs between the Scrape and the Record of
\* a sync() included; and a recorded sample older than retainDuration is
\* removed in the end while the Syncer runs and Purge succeeds.
C36_PurgeKeepsYoungSamples ==
    /\ [][/\ (syncer.purgeLoop = "purge" /\ syncer'.purgeLoop # "purge") =>
               mstore'.lastPurgeTime = Add(now, -syncer.retainDuration)
           /\ IsPrefix(YoungAt(mstore.records, now, syncer.retainDuration),
                       YoungAt(mstore'.records, now, syncer.retainDuration))]_vars
    /\ (/\ syncer.started
        /\ mstore.purgeErr = NoError
        /\ HasOldAt(mstore.records, now, syncer.retainDuration))
           ~> \/ syncer.canceled
              \/ ~HasOldAt(mstore.records, now, syncer.retainDuration)

\* C36 witness: between the Scrape and the Record of a sync(), a purge at
\* two seconds with the cutoff at one second removed the sample of time 0
\* and kept the sample of two seconds.
C36_Witness ==
    /\ syncer.sync = "record"
    /\ syncer.purgeLoop = "select"
    /\ now = TimeOf(2, 0)
    /\ mstore.lastPurgeTime = TimeOf(1, 0)
    /\ mstore.purged = 1
    /\ mstore.records = <<Metric(2 * Second, "metric2")>>

\* The larger of two durations.
MaxOf(a, b) == IF a >= b THEN a ELSE b

\* C37: for a bucket created by Bucket without disablePurge the purge
\* interval is a fifth of the Store's retention, floored at one second,
\* interval = max(retention / 5, 1s): never below one second, and never
\* above the retention when the retention is at least one second.
C37_PurgeIntervalIsFifthFlooredAtSecond ==
    (output # NoValue /\ ~input.disablePurge) =>
        /\ output.purgeInterval = MaxOf(Quo(input.retention, 5), Second)
        /\ output.purgeInterval >= Second
        /\ input.retention >= Second => output.purgeInterval <= input.retention
        /\ output.d = input.retention

\* C37 witness: a Store with a retention of four seconds and a quarter
\* gave a bucket the interval of one second.
C37_Witness ==
    /\ output # NoValue
    /\ ~input.disablePurge
    /\ input.retention = 4 * Second + Second \div 4
    /\ output.purgeInterval = Second

\* A Store with a retention of three days gave a bucket the interval of a
\* fifth of it.
C37_WitnessFifth ==
    /\ output # NoValue
    /\ ~input.disablePurge
    /\ input.retention = 3 * 24 * 3600 * Second
    /\ output.purgeInterval = 51840 * Second

\* C38: a component whose Bucket cannot be created fails its own
\* initialization: when EventStore.Bucket returns an error, New returns
\* that error and no component, and it has canceled the component context
\* it made, so that no check loop runs for it, now or later. From the
\* moment Bucket returned its error the component has no bucket, no purge
\* loop, no kmsg Syncer and no check loop, and New does nothing but return.
C38_BucketErrorFailsNew ==
    (component # NoComponent /\ component.bucketErr # NoError) =>
        /\ component.bucketErr = calls[ComponentCreator].err
        /\ component.new \in {"fail", "returned"}
        /\ component.new = "returned" =>
              /\ component.returned = "nil"
              /\ component.err = component.bucketErr
              /\ component.ctxCanceled
        /\ component.checkLoop = "none"
        /\ component.kmsg = "nil"
        /\ ~component.eventBucket
        /\ loop = "none"

\* C38 witness: New of a cpu component has returned the error with which
\* createTable failed after it had created the table in its transaction.
C38_Witness ==
    /\ component # NoComponent
    /\ component.kind = "cpu"
    /\ component.new = "returned"
    /\ calls[ComponentCreator].err = ErrEngine
    /\ calls[ComponentCreator].pending # <<>>
    /\ component.bucketErr = ErrEngine
    /\ component.err = ErrEngine
    /\ component.returned = "nil"
    /\ component.ctxCanceled

\* C39: every component that got a Bucket from the Store closes it in its
\* own Close(), so that after the component's Close() the purge loop of
\* the bucket terminates in the end.
C39_CloseEndsPurgeLoop ==
    /\ []((/\ component # NoComponent
           /\ component.eventBucket
           /\ component.closes > 0) => closed)
    /\ (/\ component # NoComponent
        /\ component.eventBucket
        /\ component.closes > 0) ~> (loop \in {"none", "exited"})

\* The hwslowdown component was closed, and the purge loop of its bucket
\* still waits for its next interval with its context alive.
C39_LoopOutlivesComponent ==
    /\ component # NoComponent
    /\ component.kind = "hwslowdown"
    /\ component.closes > 0
    /\ component.checkLoop = "exited"
    /\ ~closed
    /\ loop = "select"
    /\ logged.err = NoError

\* For the components whose Close() closes the bucket, the purge loop ends
\* once Close() was called.
C39_ClosingKindsEndPurgeLoop ==
    (/\ component # NoComponent
     /\ ClosesBucket(component.kind)
     /\ component.eventBucket
     /\ (component.closing # "idle" \/ component.closes > 0))
        ~> (closed /\ loop \in {"none", "exited"})

\* A step of a call made through the handle: the purge loop, the clock and
\* the handle's context stay as they are.
CallStep(op) ==
    /\ last'.op = op
    /\ loop' = loop
    /\ logged' = logged
    /\ purgeNow' = purgeNow
    /\ closed' = closed
    /\ now' = now

\* C40: Close() affects only the background purger. Close itself changes
\* neither the rows, the schema nor the handle; before and after Close
\* alike, Insert, Find, Get, Latest and Purge called on the handle with a
\* live request context succeed and do what the statement does on the
\* stored rows; and a step of the purge loop of a closed handle deletes no
\* row.
C40_CloseAffectsOnlyPurger ==
    [][/\ closed' # closed =>
             rows' = rows /\ catalog' = catalog /\ handle' = handle
       /\ CallStep("Insert") =>
             /\ last'.err = NoError
             /\ rows' = insertEvent("live", rows, last'.ev).tbl
       /\ CallStep("Find") =>
             /\ last'.err = NoError
             /\ last'.found = findEvent("live", rows, last'.ev).found
             /\ rows' = rows
       /\ CallStep("Get") =>
             /\ last'.err = NoError
             /\ last'.events = getEvents("live", rows, last'.since).events
             /\ rows' = rows
       /\ CallStep("Latest") =>
             /\ last'.err = NoError
             /\ last'.found = lastEvent("live", rows).found
             /\ rows' = rows
       /\ CallStep("Purge") =>
             /\ last'.err = NoError
             /\ rows' = purgeEvents("live", rows, last'.cutoff).tbl
             /\ last'.n = Len(rows) - Len(rows')
       /\ (closed /\ loop' # loop) => rows' = rows
      ]_vars

\* C40 witness: on a closed handle whose purge loop has exited, a Purge by
\* the owner deleted a row and left one.
C40_Witness ==
    /\ closed
    /\ loop = "exited"
    /\ last.op = "Purge"
    /\ last.err = NoError
    /\ last.n = 1
    /\ Len(rows) = 1

\* On a closed handle a Find returned the event an Insert had stored after
\* the Close.
C40_WitnessFind ==
    /\ closed
    /\ last.op = "Find"
    /\ last.err = NoError
    /\ ~last.found.isNil
    /\ Len(rows) = 1
    /\ logged.err = ErrCanceled
====
